---- MODULE Spec2Model ----
(***************************************************************************)
(* winescope crawler core: the fetch executor (CurlCrawlerAdapter), the    *)
(* extraction engine (WineSearcherParser) and the orchestration use case   *)
(* (SearchWineUseCase), as state machines.                                 *)
(*                                                                         *)
(* Text is a sequence of one-character strings, so that escaping, trimming *)
(* and the regular-expression scans are computed character by character,   *)
(* the way the code computes them.                                         *)
(***************************************************************************)
EXTENDS Integers, Sequences, FiniteSets, TLC

VARIABLES
    fpc,        \* position of the fetch call: idle, called, built, running, exited, returned, threw
    url,        \* fetch's url argument
    opts,       \* fetch's options argument (CrawlOptions)
    escaped,    \* the escaped arguments computed by buildCurlCommand
    command,    \* the command line handed to exec
    execCount,  \* how many times the external process was started
    proc,       \* what exec's callback delivered: {stdout, stderr} or an error
    fetchResult,\* what fetch returned or threw
    upc,        \* position of SearchWineUseCase.execute: idle, fetching, parsing, returned, threw
    request,    \* execute's request argument
    fetchCalls, \* how many times execute called crawler.fetch
    ucResult,   \* what execute returned or threw
    ppc,        \* position of the parse call: idle, wine, ratings, stamp, done, failed
    html,       \* parse's html argument
    sourceUrl,  \* parse's sourceUrl argument
    wine,       \* the Wine extractWine returned
    ratings,    \* the ratings pushed so far by extractRatings
    itemIdx,    \* the rating item the each loop of extractRatings is at
    price,      \* the Price, or null, extractPrice returned
    caught,     \* the error the catch block of parse received
    parseResult,\* what parse returned or threw
    clock,      \* the system clock, in milliseconds
    waiting,    \* the other requests in flight, each suspended at an await: its locals
    response,   \* what CrawlerExceptionFilter.catch received and sent: response.status(..).json(..)
    built,      \* a value object or entity made on its own: the call, its arguments, its outcome
    told        \* what a method called on the built object returned

fetchVars == <<fpc, url, opts, escaped, command, execCount, proc, fetchResult>>
ucVars    == <<upc, request, fetchCalls, ucResult>>
parseVars == <<ppc, html, sourceUrl, wine, ratings, itemIdx, price, caught, parseResult, clock>>

domainVars == <<built, told>>

vars == <<fetchVars, ucVars, parseVars, waiting, response, domainVars>>

\* what the steps of fetch, and of parse, leave alone
outsideFetch == <<ucVars, parseVars, waiting, response, domainVars>>
outsideParse == <<fetchVars, ucVars, waiting, response, domainVars>>

(***************************************************************************)
(* Bounds of the model.                                                    *)
(***************************************************************************)
MaxLen == 3     \* longest argument string enumerated for the command builder
MaxClock == 2   \* how far the clock advances during one parse
MaxItems == 2   \* longest list of rating items enumerated for the ratings container
MaxQueryLen == 3 \* longest winery text enumerated for the url builder

(***************************************************************************)
(* Text helpers.                                                           *)
(***************************************************************************)
RECURSIVE Concat(_)
Concat(ss) == IF ss = <<>> THEN <<>> ELSE Head(ss) \o Concat(Tail(ss))

\* String.prototype.includes
Includes(s, sub) ==
    \E i \in 1..(Len(s) - Len(sub) + 1) : SubSeq(s, i, i + Len(sub) - 1) = sub

\* String.prototype.replace(/c/g, r) for a one-character pattern c
RECURSIVE ReplaceAll(_, _, _)
ReplaceAll(s, c, r) ==
    IF s = <<>> THEN <<>>
    ELSE (IF Head(s) = c THEN r ELSE <<Head(s)>>) \o ReplaceAll(Tail(s), c, r)

DigitChars == <<"0", "1", "2", "3", "4", "5", "6", "7", "8", "9">>

\* Number.prototype.toString for a natural number
RECURSIVE NatToText(_)
NatToText(n) ==
    IF n < 10 THEN <<DigitChars[n + 1]>>
    ELSE NatToText(n \div 10) \o <<DigitChars[(n % 10) + 1]>>

\* All texts over alphabet A of length at most n
RECURSIVE TextsUpTo(_, _)
TextsUpTo(A, n) ==
    IF n = 0 THEN {<<>>}
    ELSE LET shorter == TextsUpTo(A, n - 1)
         IN  shorter \cup {Append(s, c) : s \in shorter, c \in A}

LowerCase == <<"a", "b", "c", "d", "e", "f", "g", "h", "i", "j", "k", "l", "m",
               "n", "o", "p", "q", "r", "s", "t", "u", "v", "w", "x", "y", "z">>
UpperCase == <<"A", "B", "C", "D", "E", "F", "G", "H", "I", "J", "K", "L", "M",
               "N", "O", "P", "Q", "R", "S", "T", "U", "V", "W", "X", "Y", "Z">>
Whitespace == {" ", "\n", "\t"}

IsDigit(c) == \E i \in 1..10 : DigitChars[i] = c
IsLower(c) == \E i \in 1..26 : LowerCase[i] = c

(***************************************************************************)
(* CurlCrawlerAdapter.escapeShellArg: nine successive global replaces.     *)
(***************************************************************************)
BS == "\\"
DQ == "\""
BT == "<backtick>"   \* the backquote character, which has no string literal in TLA+

\* The nine characters escapeShellArg escapes, in the order of its replaces
EscapedChars == <<BS, DQ, "$", BT, ";", "&", "|", ">", "<">>

RECURSIVE EscapePasses(_, _)
EscapePasses(s, cs) ==
    IF cs = <<>> THEN s
    ELSE EscapePasses(ReplaceAll(s, Head(cs), <<BS, Head(cs)>>), Tail(cs))

\* A slip in the order of the replaces: the backslash pass runs last
escapeShellArg_backslashLast(arg) ==
    EscapePasses(arg, Tail(EscapedChars) \o <<BS>>)

escapeShellArg(arg) == EscapePasses(arg, EscapedChars)

(***************************************************************************)
(* CurlCrawlerAdapter.buildCurlCommand                                     *)
(***************************************************************************)
T_curl    == <<"c", "u", "r", "l", "_">>
T_flags   == <<" ", "-", "s", " ", "-", "L", " ">>
T_maxtime == <<" ", "-", "-", "m", "a", "x", "-", "t", "i", "m", "e", " ">>
T_H       == <<" ", "-", "H", " ", DQ>>
T_A       == <<" ", "-", "A", " ", DQ>>
T_colon   == <<":", " ">>

chrome116  == <<"c", "h", "r", "o", "m", "e", "1", "1", "6">>
firefox109 == <<"f", "i", "r", "e", "f", "o", "x", "1", "0", "9">>

DEFAULT_TIMEOUT == 5000

\* Math.ceil(timeout / 1000) for a natural number of milliseconds
CeilSeconds(timeout) == (timeout + 999) \div 1000

\* options.browser || 'chrome116' and options.timeout || 5000
EffectiveBrowser(o) == IF o.browser = <<>> THEN chrome116 ELSE o.browser
EffectiveTimeout(o) == IF o.timeout = 0 THEN DEFAULT_TIMEOUT ELSE o.timeout

\* The escaped url, header pairs and user agent (lines 94, 104, 105, 112)
EscapeArgs(u, o) ==
    [url     |-> escapeShellArg(u),
     headers |-> [i \in 1..Len(o.headers) |->
                    <<escapeShellArg(o.headers[i][1]), escapeShellArg(o.headers[i][2])>>],
     ua      |-> escapeShellArg(o.userAgent)]

RECURSIVE HeaderFlags(_)
HeaderFlags(hs) ==
    IF hs = <<>> THEN <<>>
    ELSE T_H \o Head(hs)[1] \o T_colon \o Head(hs)[2] \o <<DQ>> \o HeaderFlags(Tail(hs))

\* A slip: the seconds are rounded to the nearest, not up
buildCurlCommand_roundSeconds(u, browser, timeout, o) ==
    LET e == EscapeArgs(u, o)
    IN  T_curl \o browser \o T_flags \o e.url
        \o T_maxtime \o NatToText((timeout + 500) \div 1000)
        \o HeaderFlags(e.headers)
        \o (IF o.userAgent = <<>> THEN <<>> ELSE T_A \o e.ua \o <<DQ>>)

buildCurlCommand(u, browser, timeout, o) ==
    LET e == EscapeArgs(u, o)
    IN  T_curl \o browser \o T_flags \o e.url
        \o T_maxtime \o NatToText(CeilSeconds(timeout))
        \o HeaderFlags(e.headers)
        \o (IF o.userAgent = <<>> THEN <<>> ELSE T_A \o e.ua \o <<DQ>>)

(***************************************************************************)
(* The shell that child_process.exec hands the command line to (/bin/sh).  *)
(* ShellScan reads the line as the POSIX shell's lexer does and counts the *)
(* simple commands, redirections and substitutions it would perform.       *)
(*   plain : outside quotes; a backslash quotes the next character         *)
(*   dq    : inside "..."; a backslash quotes only $ backquote " \ newline *)
(*   sq    : inside '...'; nothing is special but the closing quote        *)
(***************************************************************************)
Separators    == {";", "&", "|", "\n"}
Redirections  == {"<", ">"}
Substitutions == {"$", BT}
DqEscapable   == {"$", BT, DQ, BS, "\n"}

RECURSIVE ShellScan(_, _, _, _, _)
ShellScan(s, i, mode, inCmd, acc) ==
    IF i > Len(s)
    THEN [acc EXCEPT !.cmds = @ + (IF inCmd THEN 1 ELSE 0),
                     !.balanced = (mode = "plain")]
    ELSE LET c == s[i] IN
      CASE mode = "plain" /\ c = BS ->
             IF i < Len(s) /\ s[i + 1] = "\n"
             THEN ShellScan(s, i + 2, mode, inCmd, acc)
             ELSE ShellScan(s, i + 2, mode, TRUE, acc)
        [] mode = "plain" /\ c = DQ -> ShellScan(s, i + 1, "dq", TRUE, acc)
        [] mode = "plain" /\ c = "'" -> ShellScan(s, i + 1, "sq", TRUE, acc)
        [] mode = "plain" /\ c \in Separators ->
             ShellScan(s, i + 1, mode, FALSE,
                       [acc EXCEPT !.cmds = @ + (IF inCmd THEN 1 ELSE 0),
                                   !.seps = @ + 1])
        [] mode = "plain" /\ c \in Redirections ->
             ShellScan(s, i + 1, mode, inCmd, [acc EXCEPT !.redirs = @ + 1])
        [] mode = "plain" /\ c \in Substitutions ->
             ShellScan(s, i + 1, mode, TRUE, [acc EXCEPT !.substs = @ + 1])
        [] mode = "plain" /\ c = " " -> ShellScan(s, i + 1, mode, inCmd, acc)
        [] mode = "dq" /\ c = BS ->
             IF i < Len(s) /\ s[i + 1] \in DqEscapable
             THEN ShellScan(s, i + 2, mode, inCmd, acc)
             ELSE ShellScan(s, i + 1, mode, inCmd, acc)
        [] mode = "dq" /\ c = DQ -> ShellScan(s, i + 1, "plain", inCmd, acc)
        [] mode = "dq" /\ c \in Substitutions ->
             ShellScan(s, i + 1, mode, inCmd, [acc EXCEPT !.substs = @ + 1])
        [] mode = "sq" /\ c = "'" -> ShellScan(s, i + 1, "plain", inCmd, acc)
        [] OTHER -> ShellScan(s, i + 1, mode, IF mode = "plain" THEN TRUE ELSE inCmd, acc)

ShellRuns(cmd) ==
    ShellScan(cmd, 1, "plain", FALSE,
              [cmds |-> 0, seps |-> 0, redirs |-> 0, substs |-> 0, balanced |-> TRUE])

\* The line runs exactly one command and nothing else
RunsOneCommand(cmd) ==
    LET r == ShellRuns(cmd)
    IN  r.balanced /\ r.cmds = 1 /\ r.seps = 0 /\ r.redirs = 0 /\ r.substs = 0

(***************************************************************************)
(* CurlCrawlerAdapter.fetch, first half: the call and the command.         *)
(***************************************************************************)
NoProc   == [kind |-> "none"]
NoResponse == [kind |-> "none"]
NoCall   == [call |-> "none"]
NoAnswer == [method |-> "none"]

DomainIdle == built = NoCall /\ told = NoAnswer
NoResult == [kind |-> "none"]
NoEscaped == [url |-> <<>>, headers |-> <<>>, ua |-> <<>>]

\* An option that is absent is its falsy value: no browser and no user agent are the
\* empty text, no timeout is 0, no headers is the empty list of pairs
NoOptions == [browser |-> <<>>, timeout |-> 0, headers |-> <<>>, userAgent |-> <<>>]

FetchIdle ==
    /\ fpc = "idle"
    /\ url = <<>>
    /\ opts = NoOptions
    /\ escaped = NoEscaped
    /\ command = <<>>
    /\ execCount = 0
    /\ proc = NoProc
    /\ fetchResult = NoResult

\* fetch(u, o) is entered: lines 28-34
FetchEnter(u, o) ==
    /\ fpc = "idle"
    /\ fpc' = "called"
    /\ url' = u
    /\ opts' = o
    /\ UNCHANGED <<escaped, command, execCount, proc, fetchResult>>

\* a caller other than the use case calls fetch(u, o)
FetchCall(u, o) ==
    /\ upc = "idle"
    /\ FetchEnter(u, o)
    /\ UNCHANGED outsideFetch

\* line 37
BuildCommand ==
    /\ fpc = "called"
    /\ fpc' = "built"
    /\ escaped' = EscapeArgs(url, opts)
    /\ command' = buildCurlCommand(url, EffectiveBrowser(opts), EffectiveTimeout(opts), opts)
    /\ UNCHANGED <<url, opts, execCount, proc, fetchResult>>
    /\ UNCHANGED outsideFetch

(***************************************************************************)
(* child_process.exec as fetch uses it (lines 39-42): the command runs     *)
(* under a timer of `timeout` ms and a 10MB output ceiling, and the        *)
(* callback delivers {stdout, stderr} or an error.  An error exec makes    *)
(* for a command that ran carries                                          *)
(*   message = 'Command failed: ' + command + '\n' + stderr,               *)
(*   code    = the exit code, or null when a signal ended the process       *)
(*   killed  = true and signal = 'SIGTERM' when the timer ended it;        *)
(* an output above maxBuffer gives 'stdout maxBuffer length exceeded'      *)
(* with code ERR_CHILD_PROCESS_STDIO_MAXBUFFER.                            *)
(***************************************************************************)
T_CommandFailed ==
    <<"C", "o", "m", "m", "a", "n", "d", " ", "f", "a", "i", "l", "e", "d", ":", " ">>
T_MaxBuffer ==
    <<"s", "t", "d", "o", "u", "t", " ", "m", "a", "x", "B", "u", "f", "f", "e", "r", " ",
      "l", "e", "n", "g", "t", "h", " ", "e", "x", "c", "e", "e", "d", "e", "d">>
T_ETIMEDOUT == <<"E", "T", "I", "M", "E", "D", "O", "U", "T">>
T_timeout   == <<"t", "i", "m", "e", "o", "u", "t">>

\* The text of a page is a sequence of tokens: a whitespace character [ws |-> c]
\* or the markup of one element (a record with its tag, class, text and children)
NoPage == <<>>
Ws(c) == [ws |-> c]
IsWsToken(tok) == "ws" \in DOMAIN tok

ProcOk(out, err) ==
    [kind |-> "ok", stdout |-> out, stderr |-> err]
ProcError(msg, code, killed, signal) ==
    [kind |-> "error", type |-> "Error", message |-> msg, code |-> code,
     killed |-> killed, signal |-> signal]

CommandFailedMessage(cmd, err) == T_CommandFailed \o cmd \o <<"\n">> \o err

(***************************************************************************)
(* CurlCrawlerAdapter.fetch, second half: lines 44-81.                     *)
(***************************************************************************)
T_EmptyResponse ==
    <<"E", "m", "p", "t", "y", " ", "r", "e", "s", "p", "o", "n", "s", "e", " ",
      "f", "r", "o", "m", " ", "U", "R", "L", ":", " ">>
T_FailedToFetch ==
    <<"F", "a", "i", "l", "e", "d", " ", "t", "o", " ", "f", "e", "t", "c", "h", " ",
      "U", "R", "L", " ">>
T_RequestTo  == <<"R", "e", "q", "u", "e", "s", "t", " ", "t", "o", " ">>
T_timedOut   == <<" ", "t", "i", "m", "e", "d", " ", "o", "u", "t", " ", "a", "f", "t", "e", "r", " ">>
T_ms         == <<"m", "s">>

Return(v) == [kind |-> "return", value |-> v]
Throw(e)  == [kind |-> "throw", error |-> e]

NetworkError(msg, u) ==
    [type |-> "NetworkError", message |-> msg, url |-> u]
TimeoutError(msg, u, ms) ==
    [type |-> "TimeoutError", message |-> msg, url |-> u, timeoutMs |-> ms]

\* String.prototype.trim: what lies between the first and the last position
\* that is not whitespace, solid being those positions
TrimTo(s, solid) ==
    IF solid = {} THEN <<>>
    ELSE SubSeq(s, CHOOSE i \in solid : \A j \in solid : i <= j,
                   CHOOSE i \in solid : \A j \in solid : i >= j)

\* !stdout || stdout.trim().length === 0
IsBlank(page) ==
    page = <<>> \/ Len(TrimTo(page, {i \in 1..Len(page) : ~IsWsToken(page[i])})) = 0

\* the catch block, lines 55-81
fetchCatch(error, u, timeout) ==
    IF error.type \in {"NetworkError", "TimeoutError"} THEN Throw(error)
    ELSE IF \/ Includes(error.message, T_ETIMEDOUT)
            \/ Includes(error.message, T_timeout)
            \/ error.code = "ETIMEDOUT"
         THEN Throw(TimeoutError(T_RequestTo \o u \o T_timedOut \o NatToText(timeout) \o T_ms,
                                 u, timeout))
         ELSE Throw(NetworkError(T_FailedToFetch \o u \o <<":", " ">> \o error.message, u))

\* A slip: output on the error stream is treated as a failure
fetchAfterExec_stderrFails(p, u, timeout) ==
    IF p.kind = "ok"
    THEN IF p.stderr /= <<>> \/ IsBlank(p.stdout)
         THEN fetchCatch(NetworkError(T_EmptyResponse \o u, u), u, timeout)
         ELSE Return(p.stdout)
    ELSE fetchCatch(p, u, timeout)

\* the continuation of fetch after `await execAsync`, lines 39-81
fetchAfterExec(p, u, timeout) ==
    IF p.kind = "ok"
    THEN IF IsBlank(p.stdout)
         THEN fetchCatch(NetworkError(T_EmptyResponse \o u, u), u, timeout)
         ELSE Return(p.stdout)
    ELSE fetchCatch(p, u, timeout)

\* 10 * 1024 * 1024, line 41
MAX_BUFFER == 10485760

\* lines 39-42: exec starts the external process under a timer of `timeout`
\* ms and an output ceiling of maxBuffer bytes
ExecStart ==
    /\ fpc = "built"
    /\ fpc' = "running"
    /\ execCount' = execCount + 1
    /\ proc' = [kind |-> "running", timeout |-> EffectiveTimeout(opts), maxBuffer |-> MAX_BUFFER]
    /\ UNCHANGED <<url, opts, escaped, command, fetchResult>>
    /\ UNCHANGED outsideFetch

ProcDelivers(p) ==
    /\ fpc = "running"
    /\ fpc' = "exited"
    /\ proc' = p
    /\ UNCHANGED <<url, opts, escaped, command, execCount, fetchResult>>
    /\ UNCHANGED outsideFetch

\* the process exits with status 0
ProcExitsOk(out, err) == ProcDelivers(ProcOk(out, err))

\* the process exits with a status other than 0 (7: connection refused,
\* 127: the shell found no curl_<profile> binary)
ProcExitsFailed(code, err) ==
    ProcDelivers(ProcError(CommandFailedMessage(command, err), code, FALSE, "null"))

\* exec's timer fires while the process is still running and ends it
ProcKilledByTimeout(err) ==
    ProcDelivers(ProcError(CommandFailedMessage(command, err), "null", TRUE, "SIGTERM"))

\* the output exceeds maxBuffer
ProcExceedsMaxBuffer ==
    ProcDelivers(ProcError(T_MaxBuffer, "ERR_CHILD_PROCESS_STDIO_MAXBUFFER", FALSE, "null"))

MAX_RETRIES == 3

\* A slip: a failed attempt is started again, up to MAX_RETRIES times
FetchResume_retry ==
    /\ fpc = "exited"
    /\ LET r == fetchAfterExec(proc, url, EffectiveTimeout(opts))
       IN  IF r.kind = "throw" /\ execCount <= MAX_RETRIES
           THEN fpc' = "built" /\ fetchResult' = fetchResult
           ELSE /\ fetchResult' = r
                /\ fpc' = IF r.kind = "return" THEN "returned" ELSE "threw"
    /\ UNCHANGED <<url, opts, escaped, command, execCount, proc>>
    /\ UNCHANGED outsideFetch

\* fetch resumes after the await and returns or throws
FetchResume ==
    /\ fpc = "exited"
    /\ fetchResult' = fetchAfterExec(proc, url, EffectiveTimeout(opts))
    /\ fpc' = IF fetchResult'.kind = "return" THEN "returned" ELSE "threw"
    /\ UNCHANGED <<url, opts, escaped, command, execCount, proc>>
    /\ UNCHANGED outsideFetch

(***************************************************************************)
(* Values: an optional value, the outcome of a call that may throw, and    *)
(* decimal numbers n/d with d a power of ten and no trailing zero.         *)
(***************************************************************************)
None    == [some |-> FALSE]
Some(v) == [some |-> TRUE, val |-> v]
OrElse(opt, default) == IF opt.some THEN opt.val ELSE default

Ok(v)     == [ok |-> TRUE, val |-> v]
Fail(msg) == [ok |-> FALSE, error |-> [type |-> "Error", message |-> msg]]

DigitValue(c) == (CHOOSE i \in 1..10 : DigitChars[i] = c) - 1

\* parseInt(digits, 10)
RECURSIVE ParseInt(_)
ParseInt(ds) ==
    IF ds = <<>> THEN 0
    ELSE ParseInt(SubSeq(ds, 1, Len(ds) - 1)) * 10 + DigitValue(ds[Len(ds)])

RECURSIVE Pow10(_)
Pow10(k) == IF k = 0 THEN 1 ELSE 10 * Pow10(k - 1)

RECURSIVE Normalize(_)
Normalize(x) ==
    IF x.d > 1 /\ x.n % 10 = 0 THEN Normalize([n |-> x.n \div 10, d |-> x.d \div 10]) ELSE x

Whole(n) == [n |-> n, d |-> 1]

\* parseFloat of the token int.frac
ParseFloat(tok) ==
    Normalize([n |-> ParseInt(tok.int \o tok.frac), d |-> Pow10(Len(tok.frac))])

Less(x, y) == x.n * y.d < y.n * x.d

\* the fraction digits of a normalized decimal below one: r/d
RECURSIVE FracText(_, _)
FracText(r, d) ==
    IF d = 1 THEN <<>>
    ELSE <<DigitChars[(r * 10) \div d + 1]>> \o FracText((r * 10) % d, d \div 10)

\* Number.prototype.toString
RECURSIVE NumToText(_)
NumToText(x) ==
    IF x.n < 0 THEN <<"-">> \o NumToText([n |-> 0 - x.n, d |-> x.d])
    ELSE IF x.d = 1 THEN NatToText(x.n)
    ELSE NatToText(x.n \div x.d) \o <<".">> \o FracText(x.n % x.d, x.d)

(***************************************************************************)
(* Regular expressions of the parser.                                      *)
(***************************************************************************)
IsUpper(c) == \E i \in 1..26 : UpperCase[i] = c
IsWordChar(c) == IsDigit(c) \/ IsLower(c) \/ IsUpper(c) \/ c = "_"

\* the end of the longest run of digits that starts at i
DigitRunEnd(s, i) ==
    CHOOSE j \in i..Len(s) :
        /\ \A k \in i..j : IsDigit(s[k])
        /\ (j = Len(s) \/ ~IsDigit(s[j + 1]))

\* text.match(/\d+/): the first run of digits
FirstDigits(s) ==
    LET at == {i \in 1..Len(s) : IsDigit(s[i])}
    IN  IF at = {} THEN None
        ELSE LET i == CHOOSE i \in at : \A j \in at : i <= j
             IN  Some(SubSeq(s, i, DigitRunEnd(s, i)))

\* text.match(/\d+(\.\d+)?/): the first run of digits, with a fraction when a
\* dot and a digit follow it
FirstNumber(s) ==
    LET at == {i \in 1..Len(s) : IsDigit(s[i])}
    IN  IF at = {} THEN None
        ELSE LET i == CHOOSE i \in at : \A j \in at : i <= j
                 j == DigitRunEnd(s, i)
                 hasFrac == j + 2 <= Len(s) /\ s[j + 1] = "." /\ IsDigit(s[j + 2])
             IN  Some([int  |-> SubSeq(s, i, j),
                       frac |-> IF hasFrac THEN SubSeq(s, j + 2, DigitRunEnd(s, j + 2))
                                ELSE <<>>])

\* /\b(19|20)\d{2}\b/ matches at i
YearAt(s, i) ==
    /\ i + 3 <= Len(s)
    /\ SubSeq(s, i, i + 1) \in {<<"1", "9">>, <<"2", "0">>}
    /\ IsDigit(s[i + 2]) /\ IsDigit(s[i + 3])
    /\ (i = 1 \/ ~IsWordChar(s[i - 1]))
    /\ (i + 3 = Len(s) \/ ~IsWordChar(s[i + 4]))

\* text.match(/\b(19|20)\d{2}\b/): the first match
FirstYear(s) ==
    LET at == {i \in 1..Len(s) : YearAt(s, i)}
    IN  IF at = {} THEN None
        ELSE LET i == CHOOSE i \in at : \A j \in at : i <= j
             IN  Some(SubSeq(s, i, i + 3))

(***************************************************************************)
(* Time: an instant is a calendar day and the milliseconds into it.  The   *)
(* clock is read by new Date(); `clock` counts the milliseconds passed     *)
(* today.                                                                  *)
(***************************************************************************)
CurrentYear == 2026

Now(ms) == [y |-> CurrentYear, m |-> 6, d |-> 15, ms |-> ms]

\* new Date(text), for the date-only form YYYY-MM-DD (days 01 to 28); any other
\* text is an invalid date here
ParseDateText(s) ==
    IF /\ Len(s) = 10
       /\ s[5] = "-" /\ s[8] = "-"
       /\ \A i \in {1, 2, 3, 4, 6, 7, 9, 10} : IsDigit(s[i])
       /\ ParseInt(SubSeq(s, 6, 7)) \in 1..12
       /\ ParseInt(SubSeq(s, 9, 10)) \in 1..28
    THEN Some([y |-> ParseInt(SubSeq(s, 1, 4)), m |-> ParseInt(SubSeq(s, 6, 7)),
               d |-> ParseInt(SubSeq(s, 9, 10)), ms |-> 0])
    ELSE None

(***************************************************************************)
(* Value objects and entities.                                             *)
(***************************************************************************)
MIN_YEAR          == 1900
FUTURE_YEARS      == 5
WINE_NAME_MAX     == 100
WINE_FIELD_MAX    == 100
RATING_SOURCE_MAX == 100
CURRENCY_MAX      == 10
SCORE_MAX         == 100

Trim(s) == TrimTo(s, {i \in 1..Len(s) : s[i] \notin Whitespace})

\* A slip: the last year allowed is left out (>= written for >)
VintageCreate_exclusiveMax(value) ==
    IF value < MIN_YEAR \/ value >= CurrentYear + FUTURE_YEARS
    THEN Fail(<<"V", "i", "n", "t", "a", "g", "e", " ", "m", "u", "s", "t", " ", "b", "e", " ", "b",
      "e", "t", "w", "e", "e", "n", " ">> \o NatToText(MIN_YEAR) \o <<" ", "a", "n", "d", " ">>
              \o NatToText(CurrentYear + FUTURE_YEARS) \o <<",", " ", "g", "o", "t", ":", " ">> \o NumToText(Whole(value)))
    ELSE Ok([value |-> value])

\* Vintage.create
VintageCreate(value) ==
    IF value < MIN_YEAR \/ value > CurrentYear + FUTURE_YEARS
    THEN Fail(<<"V", "i", "n", "t", "a", "g", "e", " ", "m", "u", "s", "t", " ", "b", "e", " ", "b",
      "e", "t", "w", "e", "e", "n", " ">> \o NatToText(MIN_YEAR) \o <<" ", "a", "n", "d", " ">>
              \o NatToText(CurrentYear + FUTURE_YEARS) \o <<",", " ", "g", "o", "t", ":", " ">> \o NumToText(Whole(value)))
    ELSE Ok([value |-> value])

\* Score.create
ScoreCreate(value) ==
    IF Less(value, Whole(0)) \/ Less(Whole(SCORE_MAX), value)
    THEN Fail(<<"S", "c", "o", "r", "e", " ", "m", "u", "s", "t", " ", "b", "e", " ", "b", "e", "t",
      "w", "e", "e", "n", " ", "0", " ", "a", "n", "d", " ", "1", "0", "0", ",", " ", "g",
      "o", "t", ":", " ">> \o NumToText(value))
    ELSE Ok([value |-> value])

\* A slip: the name keeps the text as given, not its trimmed form
WineNameCreate_untrimmed(value) ==
    LET trimmed == Trim(value)
    IN  IF Len(trimmed) = 0 THEN Fail(<<"W", "i", "n", "e", " ", "n", "a", "m", "e", " ", "c", "a", "n", "n", "o", "t", " ",
      "b", "e", " ", "e", "m", "p", "t", "y">>)
        ELSE IF Len(trimmed) > WINE_NAME_MAX
        THEN Fail(<<"W", "i", "n", "e", " ", "n", "a", "m", "e", " ", "c", "a", "n", "n", "o", "t", " ",
      "e", "x", "c", "e", "e", "d", " ", "1", "0", "0", " ", "c", "h", "a", "r", "a", "c",
      "t", "e", "r", "s", ",", " ", "g", "o", "t", ":", " ">>
                  \o NatToText(Len(trimmed)))
        ELSE Ok([value |-> value])

\* WineName.create
WineNameCreate(value) ==
    LET trimmed == Trim(value)
    IN  IF Len(trimmed) = 0 THEN Fail(<<"W", "i", "n", "e", " ", "n", "a", "m", "e", " ", "c", "a", "n", "n", "o", "t", " ",
      "b", "e", " ", "e", "m", "p", "t", "y">>)
        ELSE IF Len(trimmed) > WINE_NAME_MAX
        THEN Fail(<<"W", "i", "n", "e", " ", "n", "a", "m", "e", " ", "c", "a", "n", "n", "o", "t", " ",
      "e", "x", "c", "e", "e", "d", " ", "1", "0", "0", " ", "c", "h", "a", "r", "a", "c",
      "t", "e", "r", "s", ",", " ", "g", "o", "t", ":", " ">>
                  \o NatToText(Len(trimmed)))
        ELSE Ok([value |-> trimmed])

\* A slip: the lengths are taken of the texts as given, not of their trimmed forms
WineNew_untrimmedLength(name, region, winery, variety, vintage) ==
    IF Len(region) = 0 THEN Fail(<<"W", "i", "n", "e", " ", "r", "e", "g", "i", "o", "n", " ", "i", "s", " ", "r", "e",
      "q", "u", "i", "r", "e", "d">>)
    ELSE IF Len(region) > WINE_FIELD_MAX
    THEN Fail(<<"W", "i", "n", "e", " ", "r", "e", "g", "i", "o", "n", " ", "t", "o", "o", " ", "l",
      "o", "n", "g", " ", "(", "m", "a", "x", " ", "1", "0", "0", " ", "c", "h", "a", "r",
      "s", ")", ":", " ">> \o region)
    ELSE IF Len(winery) = 0 THEN Fail(<<"W", "i", "n", "e", "r", "y", " ", "i", "s", " ", "r", "e", "q", "u", "i", "r", "e",
      "d">>)
    ELSE IF Len(winery) > WINE_FIELD_MAX
    THEN Fail(<<"W", "i", "n", "e", "r", "y", " ", "n", "a", "m", "e", " ", "t", "o", "o", " ", "l",
      "o", "n", "g", " ", "(", "m", "a", "x", " ", "1", "0", "0", " ", "c", "h", "a", "r",
      "s", ")", ":", " ">> \o winery)
    ELSE IF Len(variety) = 0 THEN Fail(<<"W", "i", "n", "e", " ", "v", "a", "r", "i", "e", "t", "y", " ", "i", "s", " ", "r",
      "e", "q", "u", "i", "r", "e", "d">>)
    ELSE IF Len(variety) > WINE_FIELD_MAX
    THEN Fail(<<"W", "i", "n", "e", " ", "v", "a", "r", "i", "e", "t", "y", " ", "t", "o", "o", " ",
      "l", "o", "n", "g", " ", "(", "m", "a", "x", " ", "1", "0", "0", " ", "c", "h", "a",
      "r", "s", ")", ":", " ">> \o variety)
    ELSE Ok([name |-> name, region |-> region, winery |-> winery, variety |-> variety,
             vintage |-> vintage])

\* new Wine(...): Wine.validate
WineNew(name, region, winery, variety, vintage) ==
    IF Len(Trim(region)) = 0 THEN Fail(<<"W", "i", "n", "e", " ", "r", "e", "g", "i", "o", "n", " ", "i", "s", " ", "r", "e",
      "q", "u", "i", "r", "e", "d">>)
    ELSE IF Len(Trim(region)) > WINE_FIELD_MAX
    THEN Fail(<<"W", "i", "n", "e", " ", "r", "e", "g", "i", "o", "n", " ", "t", "o", "o", " ", "l",
      "o", "n", "g", " ", "(", "m", "a", "x", " ", "1", "0", "0", " ", "c", "h", "a", "r",
      "s", ")", ":", " ">> \o region)
    ELSE IF Len(Trim(winery)) = 0 THEN Fail(<<"W", "i", "n", "e", "r", "y", " ", "i", "s", " ", "r", "e", "q", "u", "i", "r", "e",
      "d">>)
    ELSE IF Len(Trim(winery)) > WINE_FIELD_MAX
    THEN Fail(<<"W", "i", "n", "e", "r", "y", " ", "n", "a", "m", "e", " ", "t", "o", "o", " ", "l",
      "o", "n", "g", " ", "(", "m", "a", "x", " ", "1", "0", "0", " ", "c", "h", "a", "r",
      "s", ")", ":", " ">> \o winery)
    ELSE IF Len(Trim(variety)) = 0 THEN Fail(<<"W", "i", "n", "e", " ", "v", "a", "r", "i", "e", "t", "y", " ", "i", "s", " ", "r",
      "e", "q", "u", "i", "r", "e", "d">>)
    ELSE IF Len(Trim(variety)) > WINE_FIELD_MAX
    THEN Fail(<<"W", "i", "n", "e", " ", "v", "a", "r", "i", "e", "t", "y", " ", "t", "o", "o", " ",
      "l", "o", "n", "g", " ", "(", "m", "a", "x", " ", "1", "0", "0", " ", "c", "h", "a",
      "r", "s", ")", ":", " ">> \o variety)
    ELSE Ok([name |-> name, region |-> region, winery |-> winery, variety |-> variety,
             vintage |-> vintage])

\* new Rating(...): Rating.validate
RatingNew(source, score, critic, reviewCount) ==
    IF Len(Trim(source)) = 0 THEN Fail(<<"R", "a", "t", "i", "n", "g", " ", "s", "o", "u", "r", "c", "e", " ", "i", "s", " ",
      "r", "e", "q", "u", "i", "r", "e", "d">>)
    ELSE IF Len(Trim(source)) > RATING_SOURCE_MAX
    THEN Fail(<<"R", "a", "t", "i", "n", "g", " ", "s", "o", "u", "r", "c", "e", " ", "t", "o", "o",
      " ", "l", "o", "n", "g", " ", "(", "m", "a", "x", " ", "1", "0", "0", " ", "c", "h",
      "a", "r", "s", ")", ":", " ">> \o source)
    ELSE IF Less(reviewCount, Whole(0))
    THEN Fail(<<"R", "e", "v", "i", "e", "w", " ", "c", "o", "u", "n", "t", " ", "c", "a", "n", "n",
      "o", "t", " ", "b", "e", " ", "n", "e", "g", "a", "t", "i", "v", "e", ":", " ">> \o NumToText(reviewCount))
    ELSE IF critic.some /\ Len(Trim(critic.val)) = 0
    THEN Fail(<<"C", "r", "i", "t", "i", "c", " ", "n", "a", "m", "e", " ", "c", "a", "n", "n", "o",
      "t", " ", "b", "e", " ", "e", "m", "p", "t", "y", " ", "s", "t", "r", "i", "n", "g",
      " ", "(", "u", "s", "e", " ", "n", "u", "l", "l", " ", "i", "n", "s", "t", "e", "a",
      "d", ")">>)
    ELSE Ok([source |-> source, score |-> score, critic |-> critic,
             reviewCount |-> reviewCount])

\* new Price(...): Price.validate
PriceNew(average, currency, priceRange, updatedAt) ==
    IF Less(average, Whole(0))
    THEN Fail(<<"A", "v", "e", "r", "a", "g", "e", " ", "p", "r", "i", "c", "e", " ", "c", "a", "n",
      "n", "o", "t", " ", "b", "e", " ", "n", "e", "g", "a", "t", "i", "v", "e", ":", " ">> \o NumToText(average))
    ELSE IF Len(currency) = 0 THEN Fail(<<"C", "u", "r", "r", "e", "n", "c", "y", " ", "i", "s", " ", "r", "e", "q", "u", "i",
      "r", "e", "d">>)
    ELSE IF Len(currency) > CURRENCY_MAX
    THEN Fail(<<"C", "u", "r", "r", "e", "n", "c", "y", " ", "c", "o", "d", "e", " ", "t", "o", "o",
      " ", "l", "o", "n", "g", " ", "(", "m", "a", "x", " ", "1", "0", " ", "c", "h", "a",
      "r", "s", ")", ":", " ">> \o currency)
    ELSE Ok([average |-> average, currency |-> currency, priceRange |-> priceRange,
             updatedAt |-> updatedAt])

\* String.prototype.toLowerCase
ToLowerChar(c) ==
    IF \E i \in 1..26 : UpperCase[i] = c
    THEN LowerCase[CHOOSE i \in 1..26 : UpperCase[i] = c]
    ELSE c
ToLower(s) == [i \in 1..Len(s) |-> ToLowerChar(s[i])]

(***************************************************************************)
(* The factories and methods as a caller outside the parser meets them: on *)
(* any JavaScript value.  A value is a finite number (a decimal, n below   *)
(* zero for a negative one), NaN, an infinity, a string or undefined.      *)
(***************************************************************************)
JsNumber(x)   == [t |-> "number", x |-> x]
JsNaN         == [t |-> "NaN"]
JsInfinity    == [t |-> "Infinity"]
JsNegInfinity == [t |-> "-Infinity"]
JsString(s)   == [t |-> "string", s |-> s]
JsUndefined   == [t |-> "undefined"]

\* typeof value
TypeOf(v) ==
    IF v.t \in {"number", "NaN", "Infinity", "-Infinity"} THEN <<"n", "u", "m", "b", "e", "r">>
    ELSE IF v.t = "string" THEN <<"s", "t", "r", "i", "n", "g">>
    ELSE <<"u", "n", "d", "e", "f", "i", "n", "e", "d">>

\* `${value}`
JsText(v) ==
    IF v.t = "number" THEN NumToText(v.x)
    ELSE IF v.t = "NaN" THEN <<"N", "a", "N">>
    ELSE IF v.t = "Infinity" THEN <<"I", "n", "f", "i", "n", "i", "t", "y">>
    ELSE IF v.t = "-Infinity" THEN <<"-", "I", "n", "f", "i", "n", "i", "t", "y">>
    ELSE IF v.t = "string" THEN v.s
    ELSE <<"u", "n", "d", "e", "f", "i", "n", "e", "d">>

\* Number.isInteger(value)
IsInteger(v) == v.t = "number" /\ v.x.d = 1

\* Vintage.create on any value: the integer test of line 25, then the range
\* test of VintageCreate
Vintage_create(v) ==
    IF ~IsInteger(v)
    THEN Fail(<<"V", "i", "n", "t", "a", "g", "e", " ", "m", "u", "s", "t", " ", "b", "e", " ", "a",
      "n", " ", "i", "n", "t", "e", "g", "e", "r", ",", " ", "g", "o", "t", ":", " ">> \o JsText(v))
    ELSE VintageCreate(v.x.n)

\* Score.create on any value: the number test of line 21, then the range test
\* of ScoreCreate; an infinity lies outside every range
Score_create(v) ==
    IF TypeOf(v) /= <<"n", "u", "m", "b", "e", "r">> \/ v.t = "NaN"
    THEN Fail(<<"S", "c", "o", "r", "e", " ", "m", "u", "s", "t", " ", "b", "e", " ", "a", " ", "v",
      "a", "l", "i", "d", " ", "n", "u", "m", "b", "e", "r", ",", " ", "g", "o", "t", ":",
      " ">> \o JsText(v))
    ELSE IF v.t \in {"Infinity", "-Infinity"}
    THEN Fail(<<"S", "c", "o", "r", "e", " ", "m", "u", "s", "t", " ", "b", "e", " ", "b", "e", "t",
      "w", "e", "e", "n", " ", "0", " ", "a", "n", "d", " ", "1", "0", "0", ",", " ", "g",
      "o", "t", ":", " ">> \o JsText(v))
    ELSE ScoreCreate(v.x)

\* WineName.create on any value: the string test of line 85, then
\* WineNameCreate
WineName_create(v) ==
    IF TypeOf(v) /= <<"s", "t", "r", "i", "n", "g">>
    THEN Fail(<<"W", "i", "n", "e", " ", "n", "a", "m", "e", " ", "m", "u", "s", "t", " ", "b", "e",
      " ", "a", " ", "s", "t", "r", "i", "n", "g", ",", " ", "g", "o", "t", ":", " ">> \o TypeOf(v))
    ELSE WineNameCreate(v.s)

\* Score.isHighRated, Score.isExcellent
HIGH_RATED == 90
EXCELLENT  == 85
\* A slip: > written for >=
isHighRated_strict(score) == Less(Whole(HIGH_RATED), score.value)

isHighRated(score) == ~Less(score.value, Whole(HIGH_RATED))
isExcellent(score) == ~Less(score.value, Whole(EXCELLENT))

\* WineName.equals
WineNameEquals(a, b) == a.value = b.value

\* A slip: the critic is left out of the test
isRobertParker_sourceOnly(rating) ==
    LET rpKeywords  == {<<"p", "a", "r", "k", "e", "r">>, <<"r", "p">>, <<"r", "o", "b", "e", "r", "t", " ", "p", "a", "r", "k", "e", "r">>}
        sourceLower == ToLower(rating.source)
    IN  \E keyword \in rpKeywords : Includes(sourceLower, keyword)

\* Rating.isRobertParker
isRobertParker(rating) ==
    LET rpKeywords  == {<<"p", "a", "r", "k", "e", "r">>, <<"r", "p">>, <<"r", "o", "b", "e", "r", "t", " ", "p", "a", "r", "k", "e", "r">>}
        critLower   == ToLower(OrElse(rating.critic, <<>>))
        sourceLower == ToLower(rating.source)
    IN  \E keyword \in rpKeywords :
            Includes(critLower, keyword) \/ Includes(sourceLower, keyword)

\* Wine.toJSON
WineToJSON(w) ==
    [name |-> w.name.value, region |-> w.region, winery |-> w.winery,
     variety |-> w.variety, vintage |-> w.vintage.value]

\* a factory or a constructor is called on its own
Makes(call, args, outcome) ==
    /\ built = NoCall
    /\ built' = [call |-> call, args |-> args, outcome |-> outcome]
    /\ UNCHANGED <<told, fetchVars, ucVars, parseVars, waiting, response>>

\* a method is called on the object that was built
Asks(call, method, arg, value) ==
    /\ built.call = call
    /\ built.outcome.ok
    /\ told = NoAnswer
    /\ told' = [method |-> method, arg |-> arg, value |-> value]
    /\ UNCHANGED <<built, fetchVars, ucVars, parseVars, waiting, response>>

CreateWineName(v) == Makes("WineName.create", [value |-> v], WineName_create(v))
CreateVintage(v)  == Makes("Vintage.create", [value |-> v], Vintage_create(v))
CreateScore(v)    == Makes("Score.create", [value |-> v], Score_create(v))

ConstructWine(name, region, winery, variety, vintage) ==
    Makes("Wine",
          [name |-> name, region |-> region, winery |-> winery, variety |-> variety,
           vintage |-> vintage],
          WineNew(name, region, winery, variety, vintage))

ConstructRating(source, score, critic, reviewCount) ==
    Makes("Rating",
          [source |-> source, score |-> score, critic |-> critic,
           reviewCount |-> reviewCount],
          RatingNew(source, score, critic, reviewCount))

AskIsHighRated == Asks("Score.create", "isHighRated", <<>>, isHighRated(built.outcome.val))
AskIsExcellent == Asks("Score.create", "isExcellent", <<>>, isExcellent(built.outcome.val))

\* name.equals(WineName.create(v)), for a v that create accepts
AskEquals(v) ==
    /\ WineName_create(v).ok
    /\ Asks("WineName.create", "equals", v,
            WineNameEquals(built.outcome.val, WineName_create(v).val))

AskIsRobertParker ==
    Asks("Rating", "isRobertParker", <<>>, isRobertParker(built.outcome.val))

AskWineToJSON == Asks("Wine", "toJSON", <<>>, WineToJSON(built.outcome.val))

(***************************************************************************)
(* The document cheerio.load makes of a page, and the selectors.           *)
(* An element has a tag, one class, one attribute, its own text and its    *)
(* children.  A node is an element with its ancestors, outermost first.    *)
(* A selector is a list of alternatives (the comma-separated parts); an    *)
(* alternative constrains the tag, the class, the attribute and the class  *)
(* of an ancestor, "" leaving the part unconstrained.                      *)
(***************************************************************************)
El(tag, cls, attr, text, kids) ==
    [tag |-> tag, cls |-> cls, attr |-> attr, text |-> text, kids |-> kids]

\* the nodes of a list of tokens, in document order
RECURSIVE Nodes(_, _)
Nodes(toks, anc) ==
    IF toks = <<>> THEN <<>>
    ELSE LET t == Head(toks)
         IN  (IF IsWsToken(t) THEN <<>>
              ELSE <<[el |-> t, anc |-> anc]>> \o Nodes(t.kids, Append(anc, t)))
             \o Nodes(Tail(toks), anc)

\* cheerio.load(html)
Load(page) == Nodes(page, <<>>)

\* $(context).find(...) searches the descendants of the context
Descendants(node) == Nodes(node.el.kids, Append(node.anc, node.el))

\* element.text(): the text of the element and of its descendants
RECURSIVE TextOf(_)
RECURSIVE TextOfAll(_)
TextOf(t) == IF IsWsToken(t) THEN <<t.ws>> ELSE t.text \o TextOfAll(t.kids)
TextOfAll(toks) == IF toks = <<>> THEN <<>> ELSE TextOf(Head(toks)) \o TextOfAll(Tail(toks))

Alt(tag, cls, attr, anc) == [tag |-> tag, cls |-> cls, attr |-> attr, anc |-> anc]
Class(c) == Alt("", c, "", "")
Attr(a)  == Alt("", "", a, "")

ElMatches(el, alt) ==
    /\ alt.tag = "" \/ el.tag = alt.tag
    /\ alt.cls = "" \/ el.cls = alt.cls
    /\ alt.attr = "" \/ el.attr = alt.attr

Matches(node, alt) ==
    /\ ElMatches(node.el, alt)
    /\ alt.anc = "" \/ \E i \in 1..Len(node.anc) : node.anc[i].cls = alt.anc

MatchesAny(node, selector) == \E i \in 1..Len(selector) : Matches(node, selector[i])

\* $(selector): the matching nodes, in document order
Select(nodes, selector) == SelectSeq(nodes, LAMBDA n : MatchesAny(n, selector))

WINE_SEARCHER_SELECTORS ==
    [wine |->
       [name    |-> <<Alt("h1", "wine-name", "", ""), Alt("h1", "", "", "wine-title"),
                      Alt("h1", "", "", "")>>,
        vintage |-> <<Class("vintage"), Class("wine-year"), Attr("data-vintage")>>,
        region  |-> <<Class("region"), Class("wine-region"), Attr("data-region")>>,
        winery  |-> <<Class("winery"), Class("wine-producer"), Attr("data-winery")>>,
        variety |-> <<Class("variety"), Class("wine-varietal"), Attr("data-variety")>>],
     ratings |->
       [container   |-> <<Class("ratings"), Class("wine-ratings"), Attr("data-ratings")>>,
        item        |-> <<Class("rating-item"), Class("rating")>>,
        source      |-> <<Class("rating-source"), Class("critic-name"), Attr("data-source")>>,
        score       |-> <<Class("rating-score"), Class("wine-score"), Attr("data-score")>>,
        critic      |-> <<Class("critic"), Class("reviewer"), Attr("data-critic")>>,
        reviewCount |-> <<Class("review-count"), Class("num-reviews"),
                          Attr("data-review-count")>>],
     price |->
       [average    |-> <<Class("average-price"), Class("price-avg"), Attr("data-price-avg")>>,
        currency   |-> <<Class("currency"), Class("price-currency"), Attr("data-currency")>>,
        priceRange |-> <<Class("price-range"), Attr("data-price-range")>>,
        updatedAt  |-> <<Class("price-updated"), Class("last-updated"),
                         Attr("data-updated")>>]]

(***************************************************************************)
(* WineSearcherParser                                                      *)
(***************************************************************************)
\* extractText: the trimmed text of the first matching node, or null
extractText(nodes, selector) ==
    LET found == Select(nodes, selector)
        text  == IF found = <<>> THEN <<>> ELSE Trim(TextOf(found[1].el))
    IN  IF Len(text) > 0 THEN Some(text) ELSE None

\* A slip: a year out of range is replaced by the default instead of failing
parseVintage_defaultOnInvalid(text) ==
    IF ~text.some THEN VintageCreate(CurrentYear)
    ELSE LET match == FirstYear(text.val)
         IN  IF match.some /\ VintageCreate(ParseInt(match.val)).ok
             THEN VintageCreate(ParseInt(match.val))
             ELSE VintageCreate(CurrentYear)

parseVintage(text) ==
    IF ~text.some THEN VintageCreate(CurrentYear)
    ELSE LET match == FirstYear(text.val)
         IN  IF match.some THEN VintageCreate(ParseInt(match.val))
             ELSE VintageCreate(CurrentYear)

parseScore(text) ==
    LET match == FirstNumber(text)
    IN  IF match.some THEN ScoreCreate(ParseFloat(match.val))
        ELSE Fail(<<"I", "n", "v", "a", "l", "i", "d", " ", "s", "c", "o", "r", "e", " ", "f", "o", "r",
      "m", "a", "t", ":", " ">> \o text)

parseReviewCount(text) ==
    IF ~text.some THEN Whole(0)
    ELSE LET match == FirstDigits(text.val)
         IN  IF match.some THEN Whole(ParseInt(match.val)) ELSE Whole(0)

CurrencySigns == {"$", "€", "£", ","}

parsePrice(text) ==
    LET cleaned == SelectSeq(text, LAMBDA c : c \notin CurrencySigns)
        match   == FirstNumber(cleaned)
    IN  IF match.some THEN Ok(ParseFloat(match.val))
        ELSE Fail(<<"I", "n", "v", "a", "l", "i", "d", " ", "p", "r", "i", "c", "e", " ", "f", "o", "r",
      "m", "a", "t", ":", " ">> \o text)

parseDate(text) == IF ~text.some THEN None ELSE ParseDateText(text.val)

T_UnknownRegion  == <<"U", "n", "k", "n", "o", "w", "n", " ", "R", "e", "g", "i", "o", "n">>
T_UnknownWinery  == <<"U", "n", "k", "n", "o", "w", "n", " ", "W", "i", "n", "e", "r", "y">>
T_UnknownVariety == <<"U", "n", "k", "n", "o", "w", "n", " ", "V", "a", "r", "i", "e", "t", "y">>
T_NameNotFound   == <<"W", "i", "n", "e", " ", "n", "a", "m", "e", " ", "n", "o", "t", " ", "f", "o", "u",
      "n", "d">>

\* A slip: the defaults are empty texts
extractWine_emptyDefaults(nodes) ==
    LET sel  == WINE_SEARCHER_SELECTORS.wine
        name == extractText(nodes, sel.name)
    IN  IF ~name.some THEN Fail(T_NameNotFound)
        ELSE LET vintage == parseVintage(extractText(nodes, sel.vintage))
                 region  == OrElse(extractText(nodes, sel.region), <<>>)
                 winery  == OrElse(extractText(nodes, sel.winery), <<>>)
                 variety == OrElse(extractText(nodes, sel.variety), <<>>)
                 wname   == WineNameCreate(name.val)
             IN  IF ~vintage.ok THEN vintage
                 ELSE IF ~wname.ok THEN wname
                 ELSE WineNew(wname.val, region, winery, variety, vintage.val)

\* A slip: a missing name is defaulted like the other fields
extractWine_defaultName(nodes) ==
    LET sel     == WINE_SEARCHER_SELECTORS.wine
        name    == OrElse(extractText(nodes, sel.name), <<"U", "n", "k", "n", "o", "w", "n", " ", "W", "i", "n", "e">>)
        vintage == parseVintage(extractText(nodes, sel.vintage))
        region  == OrElse(extractText(nodes, sel.region), T_UnknownRegion)
        winery  == OrElse(extractText(nodes, sel.winery), T_UnknownWinery)
        variety == OrElse(extractText(nodes, sel.variety), T_UnknownVariety)
        wname   == WineNameCreate(name)
    IN  IF ~vintage.ok THEN vintage
        ELSE IF ~wname.ok THEN wname
        ELSE WineNew(wname.val, region, winery, variety, vintage.val)

extractWine(nodes) ==
    LET sel  == WINE_SEARCHER_SELECTORS.wine
        name == extractText(nodes, sel.name)
    IN  IF ~name.some THEN Fail(T_NameNotFound)
        ELSE LET vintage == parseVintage(extractText(nodes, sel.vintage))
                 region  == OrElse(extractText(nodes, sel.region), T_UnknownRegion)
                 winery  == OrElse(extractText(nodes, sel.winery), T_UnknownWinery)
                 variety == OrElse(extractText(nodes, sel.variety), T_UnknownVariety)
                 wname   == WineNameCreate(name.val)
             IN  IF ~vintage.ok THEN vintage
                 ELSE IF ~wname.ok THEN wname
                 ELSE WineNew(wname.val, region, winery, variety, vintage.val)

\* $(selectors.container).find(selectors.item): the item nodes below a container
RatingItems(nodes) ==
    LET sel == WINE_SEARCHER_SELECTORS.ratings
    IN  SelectSeq(nodes, LAMBDA n :
            /\ MatchesAny(n, sel.item)
            /\ \E i \in 1..Len(n.anc) :
                   MatchesAny([el |-> n.anc[i], anc |-> SubSeq(n.anc, 1, i - 1)],
                              sel.container))

\* the body of the try block for one item, lines 106-120: the rating to push,
\* nothing to push, or an error thrown
ratingOfItem(item) ==
    LET sel             == WINE_SEARCHER_SELECTORS.ratings
        inner           == Descendants(item)
        source          == extractText(inner, sel.source)
        scoreText       == extractText(inner, sel.score)
        critic          == extractText(inner, sel.critic)
        reviewCountText == extractText(inner, sel.reviewCount)
    IN  IF source.some /\ scoreText.some
        THEN LET score == parseScore(scoreText.val)
             IN  IF ~score.ok THEN score
                 ELSE LET rating == RatingNew(source.val, score.val, critic,
                                              parseReviewCount(reviewCountText))
                      IN  IF rating.ok THEN Ok(Some(rating.val)) ELSE rating
        ELSE Ok(None)

\* A slip: the error of an item is not caught and ends extractRatings
ratingsAfterItem_rethrow(rs, item) ==
    LET r == ratingOfItem(item)
    IN  IF ~r.ok THEN r
        ELSE IF r.val.some THEN Ok(Append(rs, r.val.val))
        ELSE Ok(rs)

\* one turn of the each loop, lines 104-124: an error is caught and logged
ratingsAfterItem(rs, item) ==
    LET r == ratingOfItem(item)
    IN  IF ~r.ok THEN Ok(rs)
        ELSE IF r.val.some THEN Ok(Append(rs, r.val.val))
        ELSE Ok(rs)

\* A slip: price is null only when both texts are missing (&& written for ||)
extractPrice_nullOnlyWhenBothMissing(nodes, ms) ==
    LET sel         == WINE_SEARCHER_SELECTORS.price
        averageText == extractText(nodes, sel.average)
        currency    == extractText(nodes, sel.currency)
    IN  IF ~averageText.some /\ ~currency.some THEN Ok(None)
        ELSE IF ~averageText.some THEN Fail(<<"I", "n", "v", "a", "l", "i", "d", " ", "p", "r", "i", "c", "e", " ", "f", "o", "r",
      "m", "a", "t", ":", " ", "n", "u", "l", "l">>)
        ELSE LET average == parsePrice(averageText.val)
             IN  IF ~average.ok THEN average
                 ELSE LET made == PriceNew(average.val, OrElse(currency, <<>>), None, Now(ms))
                      IN  IF made.ok THEN Ok(Some(made.val)) ELSE made

\* A slip: a price text without a number degrades to no price
extractPrice_nullOnBadPrice(nodes, ms) ==
    LET sel         == WINE_SEARCHER_SELECTORS.price
        averageText == extractText(nodes, sel.average)
        currency    == extractText(nodes, sel.currency)
    IN  IF ~averageText.some \/ ~currency.some THEN Ok(None)
        ELSE LET average == parsePrice(averageText.val)
             IN  IF ~average.ok THEN Ok(None)
                 ELSE LET priceRange == extractText(nodes, sel.priceRange)
                          parsed     == parseDate(extractText(nodes, sel.updatedAt))
                          updatedAt  == IF parsed.some THEN parsed.val ELSE Now(ms)
                          made      == PriceNew(average.val, currency.val, priceRange,
                                                 updatedAt)
                      IN  IF made.ok THEN Ok(Some(made.val)) ELSE made

\* extractPrice, with the clock reading ms for new Date()
extractPrice(nodes, ms) ==
    LET sel         == WINE_SEARCHER_SELECTORS.price
        averageText == extractText(nodes, sel.average)
        currency    == extractText(nodes, sel.currency)
    IN  IF ~averageText.some \/ ~currency.some THEN Ok(None)
        ELSE LET average == parsePrice(averageText.val)
             IN  IF ~average.ok THEN average
                 ELSE LET priceRange == extractText(nodes, sel.priceRange)
                          parsed     == parseDate(extractText(nodes, sel.updatedAt))
                          updatedAt  == IF parsed.some THEN parsed.val ELSE Now(ms)
                          made      == PriceNew(average.val, currency.val, priceRange,
                                                 updatedAt)
                      IN  IF made.ok THEN Ok(Some(made.val)) ELSE made

ParsingError(msg, src) ==
    [type |-> "ParsingError", message |-> msg, sourceUrl |-> src]

T_FailedToParse == <<"F", "a", "i", "l", "e", "d", " ", "t", "o", " ", "p", "a", "r", "s", "e", " ", "H",
      "T", "M", "L", " ", "f", "r", "o", "m", " ">>

\* A slip: the error is passed on as it was caught
parseCatch_rethrow(error, src) == Throw(error)

\* the catch block of parse, lines 57-64
parseCatch(error, src) ==
    Throw(ParsingError(T_FailedToParse \o src \o <<":", " ">> \o error.message, src))

NoWine == [name |-> [value |-> <<>>], region |-> <<>>, winery |-> <<>>, variety |-> <<>>,
           vintage |-> [value |-> 0]]
NoError == [type |-> "none"]

ParseIdle ==
    /\ ppc = "idle"
    /\ html = <<>>
    /\ sourceUrl = <<>>
    /\ wine = NoWine
    /\ ratings = <<>>
    /\ itemIdx = 0
    /\ price = None
    /\ caught = NoError
    /\ parseResult = NoResult

\* parse(h, src) is entered: lines 31-35
ParseEnter(h, src) ==
    /\ ppc = "idle"
    /\ ppc' = "wine"
    /\ html' = h
    /\ sourceUrl' = src
    /\ UNCHANGED <<wine, ratings, itemIdx, price, caught, parseResult, clock>>

\* an error reaches the catch block of parse
ParseFails(error) ==
    /\ ppc' = "failed"
    /\ caught' = error
    /\ parseResult' = parseCatch(error, sourceUrl)

\* line 38
ExtractWine ==
    /\ ppc = "wine"
    /\ LET r == extractWine(Load(html))
       IN  IF r.ok
           THEN /\ wine' = r.val
                /\ ppc' = "ratings"
                /\ itemIdx' = 1
                /\ UNCHANGED <<caught, parseResult>>
           ELSE /\ ParseFails(r.error)
                /\ UNCHANGED <<wine, itemIdx>>
    /\ UNCHANGED <<html, sourceUrl, ratings, price, clock>>
    /\ UNCHANGED outsideParse

\* line 41, one turn of the loop of extractRatings
ExtractRating ==
    /\ ppc = "ratings"
    /\ itemIdx <= Len(RatingItems(Load(html)))
    /\ LET r == ratingsAfterItem(ratings, RatingItems(Load(html))[itemIdx])
       IN  IF r.ok
           THEN /\ ratings' = r.val
                /\ itemIdx' = itemIdx + 1
                /\ UNCHANGED <<ppc, caught, parseResult>>
           ELSE /\ ParseFails(r.error)
                /\ UNCHANGED <<ratings, itemIdx>>
    /\ UNCHANGED <<html, sourceUrl, wine, price, clock>>
    /\ UNCHANGED outsideParse

\* line 44, once the loop of extractRatings has ended
ExtractPrice ==
    /\ ppc = "ratings"
    /\ itemIdx > Len(RatingItems(Load(html)))
    /\ LET r == extractPrice(Load(html), clock)
       IN  IF r.ok
           THEN /\ price' = r.val
                /\ ppc' = "stamp"
                /\ UNCHANGED <<caught, parseResult>>
           ELSE /\ ParseFails(r.error)
                /\ UNCHANGED price
    /\ UNCHANGED <<html, sourceUrl, wine, ratings, itemIdx, clock>>
    /\ UNCHANGED outsideParse

\* A slip: the stamp is a date taken when the clock stood at 0, before the
\* extraction
ParseReturn_stampedEarly ==
    /\ ppc = "stamp"
    /\ ppc' = "done"
    /\ parseResult' = Return([wine |-> wine, ratings |-> ratings, price |-> price,
                              sourceUrl |-> sourceUrl, crawledAt |-> Now(0)])
    /\ UNCHANGED <<html, sourceUrl, wine, ratings, itemIdx, price, caught, clock>>
    /\ UNCHANGED outsideParse

\* lines 50-56: the result, stamped with new Date()
ParseReturn ==
    /\ ppc = "stamp"
    /\ ppc' = "done"
    /\ parseResult' = Return([wine |-> wine, ratings |-> ratings, price |-> price,
                              sourceUrl |-> sourceUrl, crawledAt |-> Now(clock)])
    /\ UNCHANGED <<html, sourceUrl, wine, ratings, itemIdx, price, caught, clock>>
    /\ UNCHANGED outsideParse

\* time passes between the two readings of the clock, in extractPrice and at
\* the return
Tick ==
    /\ ppc = "stamp"
    /\ clock < MaxClock
    /\ clock' = clock + 1
    /\ UNCHANGED <<ppc, html, sourceUrl, wine, ratings, itemIdx, price, caught, parseResult>>
    /\ UNCHANGED outsideParse

(***************************************************************************)
(* SearchWineUseCase                                                       *)
(***************************************************************************)
\* replace(/\s+/g, '+'): each run of whitespace becomes one '+'
RECURSIVE CollapseWhitespace(_)
CollapseWhitespace(s) ==
    IF s = <<>> THEN <<>>
    ELSE IF Head(s) \in Whitespace
         THEN IF Len(s) > 1 /\ s[2] \in Whitespace
              THEN CollapseWhitespace(Tail(s))
              ELSE <<"+">> \o CollapseWhitespace(Tail(s))
         ELSE <<Head(s)>> \o CollapseWhitespace(Tail(s))

\* replace(/[^a-z0-9+]/g, '')
StripSpecial(s) == SelectSeq(s, LAMBDA c : IsLower(c) \/ IsDigit(c) \/ c = "+")

T_find ==
    <<"h", "t", "t", "p", "s", ":", "/", "/", "w", "w", "w", ".", "w", "i", "n", "e", "-",
      "s", "e", "a", "r", "c", "h", "e", "r", ".", "c", "o", "m", "/", "f", "i", "n", "d", "/">>

\* A slip: the two replaces in the other order
constructWineSearcherUrl_stripFirst(req) ==
    LET joined == req.winery \o <<" ">> \o req.variety \o <<" ">>
                  \o NatToText(req.vintage) \o <<" ">> \o req.region
    IN  T_find \o CollapseWhitespace(StripSpecial(ToLower(joined)))

constructWineSearcherUrl(req) ==
    LET joined == req.winery \o <<" ">> \o req.variety \o <<" ">>
                  \o NatToText(req.vintage) \o <<" ">> \o req.region
    IN  T_find \o StripSpecial(CollapseWhitespace(ToLower(joined)))

\* the decimal text of n, padded with zeros to w digits
Pad(n, w) ==
    LET t == NatToText(n)
    IN  [i \in 1..(w - Len(t)) |-> "0"] \o t

\* Date.prototype.toISOString
ToISOString(t) ==
    Pad(t.y, 4) \o <<"-">> \o Pad(t.m, 2) \o <<"-">> \o Pad(t.d, 2) \o <<"T">>
    \o Pad(t.ms \div 3600000, 2) \o <<":">> \o Pad((t.ms \div 60000) % 60, 2) \o <<":">>
    \o Pad((t.ms \div 1000) % 60, 2) \o <<".">> \o Pad(t.ms % 1000, 3) \o <<"Z">>

T_WineSearcher == <<"W", "i", "n", "e", "-", "S", "e", "a", "r", "c", "h", "e", "r">>

\* A slip: the price is tested through its priceRange, so a price without a
\* range is mapped to null
mapToResponseDto_nullWithoutRange(wineData) ==
    [wine    |-> [name    |-> wineData.wine.name.value,
                  region  |-> wineData.wine.region,
                  winery  |-> wineData.wine.winery,
                  variety |-> wineData.wine.variety,
                  vintage |-> wineData.wine.vintage.value],
     ratings |-> [i \in 1..Len(wineData.ratings) |->
                    [source      |-> wineData.ratings[i].source,
                     score       |-> wineData.ratings[i].score.value,
                     critic      |-> wineData.ratings[i].critic,
                     reviewCount |-> wineData.ratings[i].reviewCount]],
     price   |-> IF wineData.price.some /\ wineData.price.val.priceRange.some
                 THEN Some([average    |-> wineData.price.val.average,
                            currency   |-> wineData.price.val.currency,
                            priceRange |-> wineData.price.val.priceRange,
                            updatedAt  |-> ToISOString(wineData.price.val.updatedAt)])
                 ELSE None,
     source  |-> [site      |-> T_WineSearcher,
                  url       |-> wineData.sourceUrl,
                  crawledAt |-> ToISOString(wineData.crawledAt)]]

mapToResponseDto(wineData) ==
    [wine    |-> [name    |-> wineData.wine.name.value,
                  region  |-> wineData.wine.region,
                  winery  |-> wineData.wine.winery,
                  variety |-> wineData.wine.variety,
                  vintage |-> wineData.wine.vintage.value],
     ratings |-> [i \in 1..Len(wineData.ratings) |->
                    [source      |-> wineData.ratings[i].source,
                     score       |-> wineData.ratings[i].score.value,
                     critic      |-> wineData.ratings[i].critic,
                     reviewCount |-> wineData.ratings[i].reviewCount]],
     price   |-> IF wineData.price.some
                 THEN Some([average    |-> wineData.price.val.average,
                            currency   |-> wineData.price.val.currency,
                            priceRange |-> wineData.price.val.priceRange,
                            updatedAt  |-> ToISOString(wineData.price.val.updatedAt)])
                 ELSE None,
     source  |-> [site      |-> T_WineSearcher,
                  url       |-> wineData.sourceUrl,
                  crawledAt |-> ToISOString(wineData.crawledAt)]]

NoRequest == [region |-> <<>>, winery |-> <<>>, variety |-> <<>>, vintage |-> 0]

UseCaseIdle ==
    /\ upc = "idle"
    /\ request = NoRequest
    /\ fetchCalls = 0
    /\ ucResult = NoResult

\* execute(req) up to the await of crawler.fetch: lines 28-43
Execute(req) ==
    /\ upc = "idle"
    /\ upc' = "fetching"
    /\ request' = req
    /\ fetchCalls' = fetchCalls + 1
    /\ FetchEnter(constructWineSearcherUrl(req),
                  [NoOptions EXCEPT !.browser = chrome116, !.timeout = 5000])
    /\ UNCHANGED ucResult
    /\ UNCHANGED <<parseVars, waiting, response, domainVars>>

\* fetch threw: the await rethrows and execute ends with the same error
ExecutePropagatesFetchError ==
    /\ upc = "fetching"
    /\ fpc = "threw"
    /\ upc' = "threw"
    /\ ucResult' = fetchResult
    /\ UNCHANGED <<request, fetchCalls>>
    /\ UNCHANGED <<fetchVars, parseVars, waiting, response, domainVars>>

\* A slip: a failed fetch is swallowed and the parser runs on an empty page
ExecuteParses_afterFailedFetch ==
    /\ upc = "fetching"
    /\ fpc \in {"returned", "threw"}
    /\ upc' = "parsing"
    /\ ParseEnter(IF fpc = "returned" THEN fetchResult.value ELSE NoPage, url)
    /\ UNCHANGED <<request, fetchCalls, ucResult>>
    /\ UNCHANGED <<fetchVars, waiting, response, domainVars>>

\* fetch returned the page: execute calls parser.parse(html, url), line 50
ExecuteParses ==
    /\ upc = "fetching"
    /\ fpc = "returned"
    /\ upc' = "parsing"
    /\ ParseEnter(fetchResult.value, url)
    /\ UNCHANGED <<request, fetchCalls, ucResult>>
    /\ UNCHANGED <<fetchVars, waiting, response, domainVars>>

\* A slip: the parse error is caught and a plain Error with its message thrown
ExecutePropagatesParseError_converted ==
    /\ upc = "parsing"
    /\ ppc = "failed"
    /\ upc' = "threw"
    /\ ucResult' = Throw([type |-> "Error", message |-> parseResult.error.message])
    /\ UNCHANGED <<request, fetchCalls>>
    /\ UNCHANGED <<fetchVars, parseVars, waiting, response, domainVars>>

\* parse threw: the await rethrows and execute ends with the same error
ExecutePropagatesParseError ==
    /\ upc = "parsing"
    /\ ppc = "failed"
    /\ upc' = "threw"
    /\ ucResult' = parseResult
    /\ UNCHANGED <<request, fetchCalls>>
    /\ UNCHANGED <<fetchVars, parseVars, waiting, response, domainVars>>

\* parse returned the wine data: execute maps it and returns, lines 52-59
ExecuteReturns ==
    /\ upc = "parsing"
    /\ ppc = "done"
    /\ upc' = "returned"
    /\ ucResult' = Return(mapToResponseDto(parseResult.value))
    /\ UNCHANGED <<request, fetchCalls>>
    /\ UNCHANGED <<fetchVars, parseVars, waiting, response, domainVars>>

(***************************************************************************)
(* CrawlerExceptionFilter: what Nest's exception layer hands to catch when *)
(* a handler or a pipe throws.  An HttpException carries its status and    *)
(* the name of its class.                                                  *)
(***************************************************************************)
HttpException(name, status, msg) ==
    [type |-> "HttpException", name |-> name, status |-> status, message |-> msg]
ValidationError(msg, field) ==
    [type |-> "ValidationError", message |-> msg, field |-> field]

T_404      == <<"4", "0", "4">>
T_notFound == <<"n", "o", "t", " ", "f", "o", "u", "n", "d">>

\* A slip: the 404 test is left out of getErrorType
getErrorType_noNotFound(exception) ==
    IF exception.type = "HttpException" THEN exception.name
    ELSE IF exception.type = "ValidationError" THEN <<"B", "a", "d", " ", "R", "e", "q", "u", "e", "s", "t">>
    ELSE IF exception.type = "TimeoutError" THEN <<"G", "a", "t", "e", "w", "a", "y", " ", "T", "i", "m", "e", "o", "u", "t">>
    ELSE IF exception.type = "NetworkError" THEN <<"B", "a", "d", " ", "G", "a", "t", "e", "w", "a", "y">>
    ELSE <<"I", "n", "t", "e", "r", "n", "a", "l", " ", "S", "e", "r", "v", "e", "r", " ", "E",
      "r", "r", "o", "r">>

\* lines 49-76
getHttpStatus(exception) ==
    IF exception.type = "HttpException" THEN exception.status
    ELSE IF exception.type = "ValidationError" THEN 400
    ELSE IF exception.type = "TimeoutError" THEN 504
    ELSE IF exception.type = "NetworkError"
         THEN IF Includes(exception.message, T_404) \/ Includes(exception.message, T_notFound)
              THEN 404
              ELSE 502
    ELSE IF exception.type = "ParsingError" THEN 500
    ELSE 500

\* lines 81-106
getErrorType(exception) ==
    IF exception.type = "HttpException" THEN exception.name
    ELSE IF exception.type = "ValidationError" THEN <<"B", "a", "d", " ", "R", "e", "q", "u", "e", "s", "t">>
    ELSE IF exception.type = "TimeoutError" THEN <<"G", "a", "t", "e", "w", "a", "y", " ", "T", "i", "m", "e", "o", "u", "t">>
    ELSE IF exception.type = "NetworkError"
         THEN IF Includes(exception.message, T_404) \/ Includes(exception.message, T_notFound)
              THEN <<"N", "o", "t", " ", "F", "o", "u", "n", "d">>
              ELSE <<"B", "a", "d", " ", "G", "a", "t", "e", "w", "a", "y">>
    ELSE IF exception.type = "ParsingError" THEN <<"I", "n", "t", "e", "r", "n", "a", "l", " ", "S", "e", "r", "v", "e", "r", " ", "E",
      "r", "r", "o", "r">>
    ELSE <<"I", "n", "t", "e", "r", "n", "a", "l", " ", "S", "e", "r", "v", "e", "r", " ", "E",
      "r", "r", "o", "r">>

\* lines 111-138; production is process.env.NODE_ENV === 'production'
getSafeErrorMessage(exception, production) ==
    IF production
    THEN IF exception.type = "ValidationError" THEN exception.message
         ELSE IF exception.type = "TimeoutError"
              THEN <<"R", "e", "q", "u", "e", "s", "t", " ", "t", "i", "m", "e", "d", " ", "o", "u", "t",
      " ", "w", "h", "i", "l", "e", " ", "f", "e", "t", "c", "h", "i", "n", "g", " ", "w",
      "i", "n", "e", " ", "d", "a", "t", "a">>
         ELSE IF exception.type = "NetworkError"
              THEN IF \/ Includes(exception.message, T_404)
                      \/ Includes(exception.message, T_notFound)
                   THEN <<"W", "i", "n", "e", " ", "n", "o", "t", " ", "f", "o", "u", "n", "d">>
                   ELSE <<"F", "a", "i", "l", "e", "d", " ", "t", "o", " ", "f", "e", "t", "c", "h", " ", "w",
      "i", "n", "e", " ", "d", "a", "t", "a", " ", "f", "r", "o", "m", " ", "e", "x", "t",
      "e", "r", "n", "a", "l", " ", "s", "o", "u", "r", "c", "e">>
         ELSE IF exception.type = "ParsingError" THEN <<"F", "a", "i", "l", "e", "d", " ", "t", "o", " ", "p", "a", "r", "s", "e", " ", "w",
      "i", "n", "e", " ", "d", "a", "t", "a">>
         ELSE <<"A", "n", " ", "u", "n", "e", "x", "p", "e", "c", "t", "e", "d", " ", "e", "r", "r",
      "o", "r", " ", "o", "c", "c", "u", "r", "r", "e", "d">>
    ELSE IF exception.message = <<>> THEN <<"U", "n", "k", "n", "o", "w", "n", " ", "e", "r", "r", "o", "r">> ELSE exception.message

T_searchPath == <<"/", "w", "i", "n", "e", "s", "/", "s", "e", "a", "r", "c", "h">>

\* catch(exception, host), lines 26-44
FilterCatch(exception, production) ==
    /\ response = NoResponse
    /\ response' = [kind   |-> "sent",
                    exception |-> exception,
                    status |-> getHttpStatus(exception),
                    body   |-> [statusCode |-> getHttpStatus(exception),
                                message    |-> getSafeErrorMessage(exception, production),
                                error      |-> getErrorType(exception),
                                timestamp  |-> ToISOString(Now(clock)),
                                path       |-> T_searchPath]]

\* an exception thrown outside the use case (by a pipe, a guard, the
\* framework) reaches the filter
FilterCall(exception, production) ==
    /\ upc = "idle"
    /\ fpc = "idle"
    /\ ppc = "idle"
    /\ FilterCatch(exception, production)
    /\ UNCHANGED <<fetchVars, ucVars, parseVars, waiting, domainVars>>

(***************************************************************************)
(* SpecCmd: the command builder on every argument text up to MaxLen.       *)
(***************************************************************************)
ArgAlphabet == {"a", " ", "\n", BS, DQ, "$", BT, ";", "&", "|", ">", "<"}
ArgTexts    == TextsUpTo(ArgAlphabet, MaxLen)

T_host == <<"h", "t", "t", "p", ":", "/", "/", "w">>
T_key  == <<"X", "-", "K">>

\* One argument text s placed as the url, as a header key and value, or as the user agent
CmdInputs ==
    {[url |-> s, opts |-> NoOptions] : s \in ArgTexts}
    \cup {[url |-> T_host, opts |-> [NoOptions EXCEPT !.headers = <<<<s, s>>, <<T_key, s>>>>]]
            : s \in ArgTexts}
    \cup {[url |-> T_host, opts |-> [NoOptions EXCEPT !.userAgent = s, !.browser = firefox109,
                                                      !.timeout = 1500]]
            : s \in ArgTexts}

InitCmd ==
    /\ fpc = "called"
    /\ \E in \in CmdInputs : url = in.url /\ opts = in.opts
    /\ escaped = NoEscaped
    /\ command = <<>>
    /\ execCount = 0
    /\ proc = NoProc
    /\ fetchResult = NoResult
    /\ UseCaseIdle
    /\ ParseIdle
    /\ clock = 0
    /\ waiting = <<>>
    /\ response = NoResponse
    /\ DomainIdle

NextCmd == BuildCommand

SpecCmd == InitCmd /\ [][NextCmd]_vars

(***************************************************************************)
(* Sample pages: families of documents, each family varying one part of    *)
(* the page over the cases the code distinguishes.                         *)
(***************************************************************************)
H1(text)            == El("h1", "", "", text, <<>>)
Div(cls, text)      == El("div", cls, "", text, <<>>)
Box(cls, kids)      == El("div", cls, "", <<>>, kids)
Data(attr, text)    == El("span", "", attr, text, <<>>)

\* a text one character longer than the entities allow
TooLong == [i \in 1..(WINE_FIELD_MAX + 1) |-> "x"]

T_Opus == <<"O", "p", "u", "s">>

\* the part of the page that carries the wine name
NameParts ==
    {<<>>,
     <<H1(<<>>)>>,
     <<H1(<<" ", "\n">>)>>,
     <<H1(T_Opus)>>,
     <<H1(<<" ">> \o T_Opus \o <<"\n">>)>>,
     <<H1(TooLong)>>,
     <<H1(<<>>), El("h1", "wine-name", "", T_Opus, <<>>)>>,
     <<H1(<<"W", "i", "n", "e", "s">>), El("h1", "wine-name", "", T_Opus, <<>>)>>,
     <<Box("wine-title", <<Ws("\n"), El("h1", "", "", <<>>, <<El("b", "", "", T_Opus, <<>>)>>)>>)>>}

VintageParts ==
    {<<>>,
     <<Div("vintage", <<"2", "0", "1", "8">>)>>,
     <<Div("vintage", <<"2", "0", "1", "7", "-", "2", "0", "1", "5">>)>>,
     <<Div("wine-year", <<"V", "i", "n", "t", "a", "g", "e", " ", "2", "0", "9", "9", ",", " ", "2", "0", "1", "8">>)>>,
     <<Data("data-vintage", <<"N", "V">>)>>,
     <<Div("vintage", <<"x", "1", "9", "9", "9", " ", "1", "8", "9", "9">>)>>}

RegionParts  == {<<>>, <<Div("region", <<" ", "N", "a", "p", "a", " ", "V", "a", "l", "l", "e", "y", "\n">>)>>, <<Div("wine-region", TooLong)>>}
WineryParts  == {<<>>, <<Data("data-winery", <<"O", "p", "u", "s", " ", "O", "n", "e">>)>>, <<Div("winery", TooLong)>>}
VarietyParts == {<<>>, <<Div("variety", TooLong)>>}

\* rating items, by what the loop of extractRatings does with them
I_full ==
    Box("rating-item", <<Div("rating-source", <<"R", "o", "b", "e", "r", "t", " ", "P", "a", "r", "k", "e", "r">>), Ws(" "),
                         Div("rating-score", <<"9", "5", " ", "p", "o", "i", "n", "t", "s">>), Div("critic", <<"R", "P">>),
                         Div("review-count", <<"1", "2", "5", " ", "r", "e", "v", "i", "e", "w", "s">>)>>)
I_decimal ==
    Box("rating", <<Data("data-source", <<"W", "S">>), Div("wine-score", <<"s", "c", "o", "r", "e", ":", " ", "9", "2", ".", "5", "0", "/", "1", "0", "0">>)>>)
I_noSource ==
    Box("rating-item", <<Div("rating-score", <<"9", "0">>)>>)
I_noScore ==
    Box("rating-item", <<Div("rating-source", <<"J", "S">>)>>)
I_blankSource ==
    Box("rating-item", <<Div("rating-source", <<" ">>), Div("rating-score", <<"9", "1">>)>>)
I_emptyFirstSource ==
    Box("rating-item", <<Div("critic-name", <<>>), Div("rating-source", <<"J", "S">>),
                         Div("rating-score", <<"9", "3">>)>>)
I_notNumeric ==
    Box("rating-item", <<Div("rating-source", <<"J", "S">>), Div("rating-score", <<"N", "/", "A">>)>>)
I_over100 ==
    Box("rating-item", <<Div("rating-source", <<"J", "S">>), Div("rating-score", <<"1", "0", "0", ".", "5">>)>>)
I_longSource ==
    Box("rating-item", <<Div("rating-source", TooLong), Div("rating-score", <<"8", "8">>)>>)

ItemKinds ==
    {I_full, I_decimal, I_noSource, I_noScore, I_blankSource, I_emptyFirstSource,
     I_notNumeric, I_over100, I_longSource}

RECURSIVE SeqsUpTo(_, _)
SeqsUpTo(S, n) ==
    IF n = 0 THEN {<<>>}
    ELSE LET shorter == SeqsUpTo(S, n - 1)
         IN  shorter \cup {Append(q, x) : q \in {r \in shorter : Len(r) = n - 1}, x \in S}

ItemLists == SeqsUpTo(ItemKinds, MaxItems)

RatingsParts ==
    {<<Box("ratings", items)>> : items \in ItemLists}
    \cup {<<I_full, Box("wine-ratings", <<Ws("\n"), I_notNumeric, Box("", <<I_decimal>>)>>)>>,
          <<Data("data-ratings", <<>>), I_full>>}

AverageParts ==
    {<<>>,
     <<Div("average-price", <<"$", "3", "2", "5", ".", "5", "0">>)>>,
     <<Div("price-avg", <<"1", ",", "2", "3", "4", " ", "a", "v", "g">>)>>,
     <<Div("average-price", <<"N", "/", "A">>)>>,
     <<Data("data-price-avg", <<"$", ",", "€", "£">>)>>}
CurrencyParts == {<<>>, <<Div("currency", <<"U", "S", "D">>)>>, <<Div("price-currency", <<"U", "S", " ", "d", "o", "l", "l", "a", "r", "s">> \o <<"!">>)>>}
RangeParts    == {<<>>, <<Div("price-range", <<"$", "3", "0", "0", "-", "$", "3", "5", "0">>)>>}
UpdatedParts  ==
    {<<>>,
     <<Div("price-updated", <<"2", "0", "2", "4", "-", "0", "1", "-", "1", "5">>)>>,
     <<Div("last-updated", <<"y", "e", "s", "t", "e", "r", "d", "a", "y">>)>>}

PriceParts ==
    {a \o c \o r \o u : a \in AverageParts, c \in CurrencyParts, r \in RangeParts,
                        u \in UpdatedParts}

P_ratings  == <<Box("ratings", <<I_full, I_notNumeric, I_decimal>>)>>
P_price    == <<Div("average-price", <<"$", "3", "2", "5", ".", "5", "0">>), Div("currency", <<"U", "S", "D">>)>>
P_badPrice == <<Div("average-price", <<"N", "/", "A">>), Div("currency", <<"U", "S", "D">>)>>

\* what else the page holds, for the documents that vary the wine fields
RestParts == {<<>>, P_ratings \o P_price, P_badPrice}

WineDocuments ==
    {n \o v \o r \o w \o y :
        n \in NameParts, v \in VintageParts, r \in RegionParts, w \in WineryParts,
        y \in VarietyParts}
    \cup {n \o r \o rest : n \in NameParts, r \in RegionParts, rest \in RestParts}

RatingsDocuments ==
    {<<H1(T_Opus)>> \o r : r \in RatingsParts}

PriceDocuments ==
    {<<H1(T_Opus)>> \o r \o p : r \in {<<>>, P_ratings}, p \in PriceParts}

Documents == WineDocuments \cup RatingsDocuments \cup PriceDocuments

(***************************************************************************)
(* Spec: one request through the fetch executor, called by the use case or *)
(* directly, with every outcome the external process can deliver.          *)
(***************************************************************************)
U_plain   == <<"h", "t", "t", "p", ":", "/", "/", "w", "/", "a">>
U_timeout == <<"h", "t", "t", "p", ":", "/", "/", "w", "/", "t", "i", "m", "e", "o", "u", "t">>
U_inject  == <<"h", "t", "t", "p", ":", "/", "/", "w", DQ, ";", " ", "r", "m", ";">>
FetchUrls == {U_plain, U_timeout, U_inject}

\* timeoutMs: none given, 1, around one second, 1500, 5000
FetchTimeouts == {0, 1, 999, 1000, 1001, 1500, 5000}
FetchOptions ==
    {[NoOptions EXCEPT !.timeout = t] : t \in FetchTimeouts}
    \cup {[NoOptions EXCEPT !.browser = firefox109, !.headers = <<<<T_key, <<"v">>>>>>,
                            !.userAgent = <<"U", "A">>]}

E_none     == <<>>
E_warning  == <<"w", "a", "r", "n">>
E_notFound == <<"n", "o", "t", " ", "f", "o", "u", "n", "d">>
Stderrs    == {E_none, E_warning, E_notFound}

\* exit statuses of a failed run: connection refused, HTTP error, binary missing
ExitCodes == {"7", "22", "127"}

Opus == [winery  |-> <<"O", "p", "u", "s", " ", "O", "n", "e">>,
         variety |-> <<"C", "a", "b", "e", "r", "n", "e", "t", " ",
                       "S", "a", "u", "v", "i", "g", "n", "o", "n">>,
         vintage |-> 2018,
         region  |-> <<"N", "a", "p", "a", " ", "V", "a", "l", "l", "e", "y">>]
TimeoutCellars ==
        [winery  |-> <<"T", "i", "m", "e", "o", "u", "t">>,
         variety |-> <<"S", "y", "r", "a", "h", "!">>,
         vintage |-> 1999,
         region  |-> <<"R", "h", "\t", " ", "n", "e">>]
Requests == {Opus, TimeoutCellars}

P_blank == <<Ws(" "), Ws("\n")>>
P_wine  == <<Ws("\n"), H1(T_Opus), Ws("\n")>>
P_full  == <<H1(T_Opus), Div("vintage", <<"2", "0", "1", "8">>)>> \o P_ratings \o P_price
Pages   == {NoPage, P_blank, P_wine, P_full, P_ratings, <<H1(T_Opus)>> \o P_badPrice}

Init ==
    /\ FetchIdle /\ UseCaseIdle /\ ParseIdle /\ clock = 0 /\ waiting = <<>>
    /\ response = NoResponse
    /\ DomainIdle

Next ==
    \/ \E u \in FetchUrls, o \in FetchOptions : FetchCall(u, o)
    \/ \E req \in Requests : Execute(req)
    \/ BuildCommand
    \/ ExecStart
    \/ \E out \in Pages, err \in Stderrs : ProcExitsOk(out, err)
    \/ \E code \in ExitCodes, err \in Stderrs : ProcExitsFailed(code, err)
    \/ \E err \in Stderrs : ProcKilledByTimeout(err)
    \/ ProcExceedsMaxBuffer
    \/ FetchResume
    \/ ExecutePropagatesFetchError
    \/ ExecuteParses
    \/ ExtractWine
    \/ ExtractRating
    \/ ExtractPrice
    \/ Tick
    \/ ParseReturn
    \/ ExecutePropagatesParseError
    \/ ExecuteReturns

Spec == Init /\ [][Next]_vars

(***************************************************************************)
(* SpecParse: parse called on its own, on every sample document.           *)
(***************************************************************************)
(***************************************************************************)
(* SpecUrl: execute up to the fetch call, on every query whose winery is a *)
(* text up to MaxQueryLen.                                                 *)
(***************************************************************************)
QueryAlphabet == {"a", "B", "7", " ", "\t", "+", "-", "é"}

Queries ==
    {[winery |-> w, variety |-> v, vintage |-> y, region |-> r] :
        w \in TextsUpTo(QueryAlphabet, MaxQueryLen),
        v \in {<<>>, <<"P", "i", "n", "o", "t", " ", " ", "N", ".">>},
        y \in {5, 2018},
        r \in {<<" ">>, <<"R", "h", "\t", "\n", "n", "e">>}}
    \cup {Opus}

NextUrl == \E req \in Queries : Execute(req)

SpecUrl == Init /\ [][NextUrl]_vars

(***************************************************************************)
(* SpecMap: execute on one request whose fetch succeeds, on every sample   *)
(* document of the ratings and price families.                             *)
(***************************************************************************)
MapDocuments == RatingsDocuments \cup PriceDocuments \cup {P_wine, P_ratings}

NextMap ==
    \/ Execute(Opus)
    \/ BuildCommand
    \/ ExecStart
    \/ \E out \in MapDocuments : ProcExitsOk(out, <<>>)
    \/ FetchResume
    \/ ExecuteParses
    \/ ExtractWine
    \/ ExtractRating
    \/ ExtractPrice
    \/ Tick
    \/ ParseReturn
    \/ ExecutePropagatesParseError
    \/ ExecuteReturns

SpecMap == Init /\ [][NextMap]_vars

(***************************************************************************)
(* SpecConc: MaxRequests calls of execute in flight on the one             *)
(* SearchWineUseCase, CurlCrawlerAdapter and WineSearcherParser.  Node     *)
(* runs one of them at a time; the others wait at an await.  Every         *)
(* variable above but the clock is a parameter or a local of a call, or a  *)
(* tally of what the call did: the classes declare no field but their      *)
(* logger and the injected ports.  The clock is the one thing the calls    *)
(* share.                                                                  *)
(***************************************************************************)
MaxRequests == 2

\* the parameters and locals of the running call
Locals ==
    [fpc |-> fpc, url |-> url, opts |-> opts, escaped |-> escaped, command |-> command,
     execCount |-> execCount, proc |-> proc, fetchResult |-> fetchResult,
     upc |-> upc, request |-> request, fetchCalls |-> fetchCalls, ucResult |-> ucResult,
     ppc |-> ppc, html |-> html, sourceUrl |-> sourceUrl, wine |-> wine,
     ratings |-> ratings, itemIdx |-> itemIdx, price |-> price, caught |-> caught,
     parseResult |-> parseResult]

\* those of a call not yet made
IdleLocals ==
    [fpc |-> "idle", url |-> <<>>, opts |-> NoOptions, escaped |-> NoEscaped,
     command |-> <<>>, execCount |-> 0, proc |-> NoProc, fetchResult |-> NoResult,
     upc |-> "idle", request |-> NoRequest, fetchCalls |-> 0, ucResult |-> NoResult,
     ppc |-> "idle", html |-> <<>>, sourceUrl |-> <<>>, wine |-> NoWine,
     ratings |-> <<>>, itemIdx |-> 0, price |-> None, caught |-> NoError,
     parseResult |-> NoResult]

\* the running call has nothing to run: it is not made yet, it waits for the
\* external process (await execAsync, adapter line 39), for the continuation
\* of a settled promise (await crawler.fetch, await parser.parse, part_008
\* lines 40 and 50), or it has ended
AtAwait ==
    \/ upc = "idle"
    \/ fpc \in {"running", "exited"}
    \/ upc = "fetching" /\ fpc \in {"returned", "threw"}
    \/ upc = "parsing" /\ ppc \in {"done", "failed"}
    \/ upc \in {"returned", "threw"}

\* A slip: the use case keeps the url in a field of the shared instance
Resume_sharedUrl(i) ==
    /\ i \in 1..Len(waiting)
    /\ AtAwait
    /\ waiting' = [waiting EXCEPT ![i] = Locals]
    /\ fpc' = waiting[i].fpc
    /\ url' = url
    /\ opts' = waiting[i].opts
    /\ escaped' = waiting[i].escaped
    /\ command' = waiting[i].command
    /\ execCount' = waiting[i].execCount
    /\ proc' = waiting[i].proc
    /\ fetchResult' = waiting[i].fetchResult
    /\ upc' = waiting[i].upc
    /\ request' = waiting[i].request
    /\ fetchCalls' = waiting[i].fetchCalls
    /\ ucResult' = waiting[i].ucResult
    /\ ppc' = waiting[i].ppc
    /\ html' = waiting[i].html
    /\ sourceUrl' = waiting[i].sourceUrl
    /\ wine' = waiting[i].wine
    /\ ratings' = waiting[i].ratings
    /\ itemIdx' = waiting[i].itemIdx
    /\ price' = waiting[i].price
    /\ caught' = waiting[i].caught
    /\ parseResult' = waiting[i].parseResult
    /\ UNCHANGED <<clock, response, domainVars>>

\* the event loop turns to the i-th waiting call: the running call waits with
\* its locals, and the other runs on with its own
Resume(i) ==
    /\ i \in 1..Len(waiting)
    /\ AtAwait
    /\ waiting' = [waiting EXCEPT ![i] = Locals]
    /\ fpc' = waiting[i].fpc
    /\ url' = waiting[i].url
    /\ opts' = waiting[i].opts
    /\ escaped' = waiting[i].escaped
    /\ command' = waiting[i].command
    /\ execCount' = waiting[i].execCount
    /\ proc' = waiting[i].proc
    /\ fetchResult' = waiting[i].fetchResult
    /\ upc' = waiting[i].upc
    /\ request' = waiting[i].request
    /\ fetchCalls' = waiting[i].fetchCalls
    /\ ucResult' = waiting[i].ucResult
    /\ ppc' = waiting[i].ppc
    /\ html' = waiting[i].html
    /\ sourceUrl' = waiting[i].sourceUrl
    /\ wine' = waiting[i].wine
    /\ ratings' = waiting[i].ratings
    /\ itemIdx' = waiting[i].itemIdx
    /\ price' = waiting[i].price
    /\ caught' = waiting[i].caught
    /\ parseResult' = waiting[i].parseResult
    /\ UNCHANGED <<clock, response, domainVars>>

ConcPages == {P_wine, P_full, <<H1(T_Opus)>> \o P_badPrice}

InitConc ==
    /\ FetchIdle /\ UseCaseIdle /\ ParseIdle /\ clock = 0
    /\ waiting = [i \in 1..(MaxRequests - 1) |-> IdleLocals]
    /\ response = NoResponse
    /\ DomainIdle

NextConc ==
    \/ \E req \in Requests : Execute(req)
    \/ BuildCommand
    \/ ExecStart
    \/ \E out \in ConcPages : ProcExitsOk(out, <<>>)
    \/ ProcKilledByTimeout(<<>>)
    \/ FetchResume
    \/ ExecutePropagatesFetchError
    \/ ExecuteParses
    \/ ExtractWine
    \/ ExtractRating
    \/ ExtractPrice
    \/ Tick
    \/ ParseReturn
    \/ ExecutePropagatesParseError
    \/ ExecuteReturns
    \/ \E i \in 1..(MaxRequests - 1) : Resume(i)

SpecConc == InitConc /\ [][NextConc]_vars

(***************************************************************************)
(* SpecFilter: the exception filter on exceptions of every kind, with      *)
(* every message up to MaxLen over an alphabet that spells "404", and the  *)
(* messages the tests use.                                                 *)
(***************************************************************************)
FilterMessages ==
    TextsUpTo({"4", "0", "x"}, MaxLen)
    \cup {<<>>, <<"n", "o", "t", " ", "f", "o", "u", "n", "d">>, <<"N", "o", "t", " ", "F", "o", "u", "n", "d">>, <<"4", "0", "4", " ", "n", "o", "t", " ", "f", "o", "u", "n", "d">>, <<"C", "o", "n", "n", "e", "c", "t", "i", "o", "n", " ", "f", "a", "i", "l", "e", "d">>,
          <<"x", "4", "0", "4", "x">>, <<"x", "n", "o", "t", " ", "f", "o", "u", "n", "d", "x">>, <<"4", "0", " ", "4">>}

Exceptions ==
    UNION {{NetworkError(msg, U_plain),
            TimeoutError(msg, U_plain, 5000),
            ParsingError(msg, U_plain),
            ValidationError(msg, <<"r", "e", "g", "i", "o", "n">>),
            [type |-> "Error", message |-> msg],
            [type |-> "TypeError", message |-> msg],
            HttpException(<<"B", "a", "d", "R", "e", "q", "u", "e", "s", "t", "E", "x", "c", "e", "p", "t", "i",
      "o", "n">>, 400, msg),
            HttpException(<<"N", "o", "t", "F", "o", "u", "n", "d", "E", "x", "c", "e", "p", "t", "i", "o", "n">>, 404, msg),
            HttpException(<<"H", "t", "t", "p", "E", "x", "c", "e", "p", "t", "i", "o", "n">>, 418, msg)} : msg \in FilterMessages}

NextFilter == \E e \in Exceptions, production \in BOOLEAN : FilterCall(e, production)

SpecFilter == Init /\ [][NextFilter]_vars

(***************************************************************************)
(* SpecHttp: POST /wines/search from the request body to the response.     *)
(* The ValidationPipe lets only a body that fits WineSearchRequestDto      *)
(* reach the handler; the handler awaits execute and answers 200 with its  *)
(* result, and what execute throws goes to the exception filter.           *)
(***************************************************************************)
\* WineSearchRequestDto: each text has 1 to 100 characters, the vintage is an
\* integer from 1900 to the current year + 5
IsValidRequest(req) ==
    /\ Len(req.region) \in 1..100
    /\ Len(req.winery) \in 1..100
    /\ Len(req.variety) \in 1..100
    /\ req.vintage \in 1900..(CurrentYear + 5)

\* searchWine is entered with a validated body and awaits execute
SearchWine(req) ==
    /\ IsValidRequest(req)
    /\ response = NoResponse
    /\ Execute(req)

\* execute threw: the handler rejects and the filter answers
SearchWineThrows(production) ==
    /\ upc = "threw"
    /\ FilterCatch(ucResult.error, production)
    /\ UNCHANGED <<fetchVars, ucVars, parseVars, waiting, domainVars>>

\* execute returned: the handler returns the result with status 200
SearchWineReturns ==
    /\ upc = "returned"
    /\ response = NoResponse
    /\ response' = [kind |-> "returned", status |-> 200, body |-> ucResult.value]
    /\ UNCHANGED <<fetchVars, ucVars, parseVars, waiting, domainVars>>

Route404 == [winery  |-> <<"R", "o", "u", "t", "e", " ", "4", "0", "4">>,
             variety |-> <<"S", "y", "r", "a", "h">>,
             vintage |-> 2018,
             region  |-> <<"R", "h", "o", "n", "e">>]
NoWinery == [Opus EXCEPT !.winery = <<>>]
HttpRequests == {Opus, Route404, NoWinery}

HttpPages == {NoPage, P_blank, P_wine, P_full, P_ratings}

NextHttp ==
    \/ \E req \in HttpRequests : SearchWine(req)
    \/ BuildCommand
    \/ ExecStart
    \/ \E out \in HttpPages : ProcExitsOk(out, E_none)
    \/ \E code \in ExitCodes, err \in Stderrs : ProcExitsFailed(code, err)
    \/ ProcKilledByTimeout(E_none)
    \/ ProcExceedsMaxBuffer
    \/ FetchResume
    \/ ExecutePropagatesFetchError
    \/ ExecuteParses
    \/ ExtractWine
    \/ ExtractRating
    \/ ExtractPrice
    \/ Tick
    \/ ParseReturn
    \/ ExecutePropagatesParseError
    \/ ExecuteReturns
    \/ \E production \in BOOLEAN : SearchWineThrows(production)
    \/ SearchWineReturns

SpecHttp == Init /\ [][NextHttp]_vars

(***************************************************************************)
(* SpecStamp: one request through fetch and parse while time passes at any *)
(* moment of the call, on pages whose price has a dated, an undated or no  *)
(* updated-at text.                                                        *)
(***************************************************************************)
\* the clock advances while the fetch or the parse is under way
TimePasses ==
    /\ \/ fpc \in {"called", "built", "running", "exited"}
       \/ ppc \in {"wine", "ratings", "stamp"}
    /\ clock < MaxClock
    /\ clock' = clock + 1
    /\ UNCHANGED <<fetchVars, ucVars, ppc, html, sourceUrl, wine, ratings, itemIdx, price,
                   caught, parseResult, waiting, response, domainVars>>

StampPages ==
    {<<H1(T_Opus)>> \o P_price \o u : u \in UpdatedParts}
    \cup {P_wine, P_full, P_ratings, <<H1(T_Opus)>> \o P_badPrice}

NextStamp ==
    \/ Execute(Opus)
    \/ BuildCommand
    \/ ExecStart
    \/ \E out \in StampPages : ProcExitsOk(out, E_none)
    \/ FetchResume
    \/ ExecuteParses
    \/ ExtractWine
    \/ ExtractRating
    \/ ExtractPrice
    \/ TimePasses
    \/ ParseReturn
    \/ ExecutePropagatesParseError
    \/ ExecuteReturns

SpecStamp == Init /\ [][NextStamp]_vars

(***************************************************************************)
(* SpecDomain: each factory and constructor called on its own on values at *)
(* and around its limits, and then a method of the object it made.         *)
(***************************************************************************)
Letters(n) == [i \in 1..n |-> "A"]

\* texts at the limits of a 100-character field: empty, blank, one letter,
\* padded, 100 letters, 100 letters padded, 101 letters
FieldTexts ==
    {<<>>, <<" ">>, <<"a">>, <<" ", "a", "\n">>, Letters(WINE_FIELD_MAX),
     <<" ">> \o Letters(WINE_FIELD_MAX) \o <<" ">>, Letters(WINE_FIELD_MAX + 1)}

NameValues ==
    {JsString(s) : s \in FieldTexts \cup {T_Opus, <<" ">> \o T_Opus \o <<"\t">>, <<"o", "p", "u", "s">>}}
    \cup {JsNumber(Whole(5)), JsUndefined}

Tenths(n) == Normalize([n |-> n, d |-> 10])

YearValues ==
    {JsNumber(Whole(y)) :
        y \in {0, MIN_YEAR - 1, MIN_YEAR, 2018, CurrentYear + FUTURE_YEARS,
               CurrentYear + FUTURE_YEARS + 1}}
    \cup {JsNumber(Whole(0 - 2018)), JsNumber(Tenths(20185)), JsNaN, JsInfinity,
          JsString(<<"2", "0", "1", "8">>), JsUndefined}

ScoreValues ==
    {JsNumber(Tenths(n)) : n \in {0 - 10, 0 - 1, 0, 1, 849, 850, 899, 900, 955, 1000, 1001, 1010}}
    \cup {JsNaN, JsInfinity, JsNegInfinity, JsString(<<"9", "5">>), JsUndefined}

SourceTexts ==
    {<<>>, <<" ">>, <<"W", "i", "n", "e", " ", "A", "d", "v", "o", "c", "a", "t", "e">>, <<"R", "P", " ", "S", "c", "o", "r", "e">>, <<"W", "i", "n", "e", " ", "S", "p", "e", "c", "t", "a", "t", "o", "r">>, <<"C", "a", "r", "p", "e", "t">>,
     <<" ", "P", "A", "R", "K", "E", "R", " ">>, Letters(RATING_SOURCE_MAX), Letters(RATING_SOURCE_MAX + 1)}

Critics ==
    {None, Some(<<>>), Some(<<" ">>), Some(<<"R", "o", "b", "e", "r", "t", " ", "P", "a", "r", "k", "e", "r">>), Some(<<"J", "a", "m", "e", "s", " ", "S", "u", "c", "k", "l", "i", "n", "g">>),
     Some(<<"S", "h", "a", "r", "p">>)}

ReviewCounts == {Whole(0 - 1), Whole(0), Whole(125), Tenths(15)}

Scores == {ScoreCreate(Whole(90)).val, ScoreCreate(Tenths(0)).val}

NextDomain ==
    \/ \E v \in NameValues : CreateWineName(v)
    \/ \E v \in YearValues : CreateVintage(v)
    \/ \E v \in ScoreValues : CreateScore(v)
    \/ \E region \in FieldTexts, winery \in FieldTexts, variety \in FieldTexts :
          ConstructWine(WineNameCreate(T_Opus).val, region, winery, variety,
                        VintageCreate(2018).val)
    \/ \E source \in SourceTexts, score \in Scores, critic \in Critics,
          reviewCount \in ReviewCounts :
          ConstructRating(source, score, critic, reviewCount)
    \/ AskIsHighRated
    \/ AskIsExcellent
    \/ \E v \in NameValues : AskEquals(v)
    \/ AskIsRobertParker
    \/ AskWineToJSON

SpecDomain == Init /\ [][NextDomain]_vars

SourceUrls == {U_plain, U_timeout}

\* parse called on its own
ParseCall(h, src) ==
    /\ fpc = "idle"
    /\ upc = "idle"
    /\ ParseEnter(h, src)
    /\ UNCHANGED outsideParse

InitParse == Init

NextParse ==
    \/ \E h \in Documents, src \in SourceUrls : ParseCall(h, src)
    \/ ExtractWine
    \/ ExtractRating
    \/ ExtractPrice
    \/ Tick
    \/ ParseReturn

SpecParse == InitParse /\ [][NextParse]_vars

(***************************************************************************)
(* Properties                                                              *)
(***************************************************************************)
Finished == fpc \in {"returned", "threw"}

\* C1: for every url, header key, header value and user agent, the command line
\* handed to the shell runs exactly one command, the curl_<profile> invocation:
\* no separator, redirection or substitution is live and no quote is left open.
C1_OneCommandForEveryInput ==
    fpc = "built" => RunsOneCommand(command)

MetaChars == {BS, DQ, "$", BT, ";", "&", "|", ">", "<"}

\* the input with one backslash put before each of the nine characters
RECURSIVE PrefixEach(_)
PrefixEach(s) ==
    IF s = <<>> THEN <<>>
    ELSE (IF Head(s) \in MetaChars THEN <<BS, Head(s)>> ELSE <<Head(s)>>)
         \o PrefixEach(Tail(s))

\* the text with every escaping backslash removed
RECURSIVE RemoveEscapes(_)
RemoveEscapes(e) ==
    IF e = <<>> THEN <<>>
    ELSE IF Head(e) = BS /\ Len(e) > 1
         THEN <<e[2]>> \o RemoveEscapes(SubSeq(e, 3, Len(e)))
         ELSE <<Head(e)>> \o RemoveEscapes(Tail(e))

\* every one of the nine characters stands right after an escaping backslash
RECURSIVE AllEscaped(_)
AllEscaped(e) ==
    IF e = <<>> THEN TRUE
    ELSE IF Head(e) = BS
         THEN Len(e) > 1 /\ e[2] \in MetaChars /\ AllEscaped(SubSeq(e, 3, Len(e)))
         ELSE Head(e) \notin MetaChars /\ AllEscaped(Tail(e))

\* each argument of the call with the escaped form buildCurlCommand made of it
EscapedPairs ==
    {<<url, escaped.url>>, <<opts.userAgent, escaped.ua>>}
    \cup {<<opts.headers[i][k], escaped.headers[i][k]>> :
            i \in 1..Len(escaped.headers), k \in 1..2}

\* C2: escapeShellArg returns its input with exactly one backslash added before
\* each occurrence of the nine characters and everything else unchanged and in
\* order: no occurrence is left unescaped, no backslash of the input is escaped
\* twice, and removing the added backslashes gives the input back.
C2_EscapeAddsOneBackslash ==
    fpc = "built" =>
        \A p \in EscapedPairs :
            /\ p[2] = PrefixEach(p[1])
            /\ AllEscaped(p[2])
            /\ RemoveEscapes(p[2]) = p[1]

C2_Witness ==
    /\ fpc = "built"
    /\ url = <<BS, DQ, "a">>
    /\ escaped.url = <<BS, BS, BS, DQ, "a">>

\* C3: when exec's timer ends the process, fetch fails with TimeoutError carrying
\* the requested url and the effective timeout.
C3_KilledByTimeoutGivesTimeoutError ==
    (Finished /\ proc.kind = "error" /\ proc.killed) =>
        /\ fetchResult.kind = "throw"
        /\ fetchResult.error.type = "TimeoutError"
        /\ fetchResult.error.url = url
        /\ fetchResult.error.timeoutMs = EffectiveTimeout(opts)

\* C4: a process failure that is not a timeout makes fetch fail with NetworkError,
\* never TimeoutError, carrying the url and the underlying message.
C4_OtherFailureGivesNetworkError ==
    (Finished /\ proc.kind = "error" /\ ~proc.killed) =>
        /\ fetchResult.kind = "throw"
        /\ fetchResult.error.type = "NetworkError"
        /\ fetchResult.error.url = url
        /\ Includes(fetchResult.error.message, proc.message)

HasNonWhitespace(page) == \E i \in 1..Len(page) : ~IsWsToken(page[i])

\* C5: when the process ends without error, fetch returns stdout unchanged if and
\* only if stdout holds a non-whitespace character, and otherwise fails with the
\* 'Empty response' NetworkError carrying the url, not wrapped again; the outcome
\* is a function of stdout and the url alone, whatever stderr holds.
C5_OutcomeWithoutProcessError ==
    (Finished /\ proc.kind = "ok") =>
        IF HasNonWhitespace(proc.stdout)
        THEN fetchResult = Return(proc.stdout)
        ELSE fetchResult = Throw(NetworkError(T_EmptyResponse \o url, url))

C5_Witness ==
    /\ fpc = "returned"
    /\ proc.kind = "ok"
    /\ proc.stderr /= <<>>
    /\ IsWsToken(proc.stdout[1])
    /\ fetchResult.value = proc.stdout

\* C6: the external process is started at most once per fetch, whatever the
\* outcome, and one execute calls fetch exactly once: nothing is retried.
C6_NoRetry ==
    /\ execCount <= 1
    /\ fetchCalls <= 1
    /\ (fpc \in {"running", "exited", "returned", "threw"} => execCount = 1)
    /\ (upc /= "idle" => fetchCalls = 1)

C6_Witness ==
    /\ upc = "threw"
    /\ fetchResult.kind = "throw"
    /\ execCount = 1
    /\ fetchCalls = 1

\* C7: every failure of parse reaches the caller as a ParsingError whose
\* sourceUrl is the sourceUrl argument and whose message contains the message
\* of the error that was caught; nothing else is ever thrown by parse.
C7_FailuresAreParsingErrors ==
    /\ (parseResult.kind = "throw") = (ppc = "failed")
    /\ ppc = "failed" =>
          /\ parseResult.error.type = "ParsingError"
          /\ parseResult.error.sourceUrl = sourceUrl
          /\ caught.type = "Error"
          /\ Includes(parseResult.error.message, caught.message)

C7_Witness ==
    /\ ppc = "failed"
    /\ sourceUrl = U_timeout
    /\ Includes(caught.message, <<"C", "u", "r", "r", "e", "n", "c", "y", " ", "c", "o", "d", "e", " ", "t", "o", "o",
      " ", "l", "o", "n", "g">>)
    /\ parseResult.error.type = "ParsingError"

\* the elements that are candidates for the wine name
NameCandidates(page) == Select(Load(page), WINE_SEARCHER_SELECTORS.wine.name)

NoNameText(page) ==
    \A i \in 1..Len(NameCandidates(page)) :
        \A k \in 1..Len(TextOf(NameCandidates(page)[i].el)) :
            TextOf(NameCandidates(page)[i].el)[k] \in Whitespace

\* C8: when no wine-name candidate of the document has non-empty text, parse
\* fails with a ParsingError carrying the source url, whatever the document
\* holds for the other wine fields, the ratings and the price.
C8_MissingNameFailsParse ==
    (NoNameText(html) /\ ppc \notin {"idle", "wine"}) =>
        /\ ppc = "failed"
        /\ parseResult.kind = "throw"
        /\ parseResult.error.type = "ParsingError"
        /\ parseResult.error.sourceUrl = sourceUrl

C8_Witness ==
    /\ ppc = "failed"
    /\ NoNameText(html)
    /\ Len(NameCandidates(html)) > 0
    /\ Len(RatingItems(Load(html))) > 0
    /\ extractText(Load(html), WINE_SEARCHER_SELECTORS.wine.region).some
    /\ parseResult.error.type = "ParsingError"

ItemText(item, part) == extractText(Descendants(item), WINE_SEARCHER_SELECTORS.ratings[part])

HasDigit(s) == \E i \in 1..Len(s) : IsDigit(s[i])

\* the item has source text and score text, the score text holds a numeric
\* token, and the Score and the Rating made of them are valid
ItemIsKept(item) ==
    /\ ItemText(item, "source").some
    /\ ItemText(item, "score").some
    /\ HasDigit(ItemText(item, "score").val)
    /\ ~Less(Whole(100), ParseFloat(FirstNumber(ItemText(item, "score").val).val))
    /\ Len(ItemText(item, "source").val) <= 100

RatingOfKept(item) ==
    [source      |-> ItemText(item, "source").val,
     score       |-> [value |-> ParseFloat(FirstNumber(ItemText(item, "score").val).val)],
     critic      |-> ItemText(item, "critic"),
     reviewCount |-> parseReviewCount(ItemText(item, "reviewCount"))]

\* the ratings of the kept items among the first k items, in document order
KeptRatings(page, k) ==
    LET items == RatingItems(Load(page))
        kept  == SelectSeq(SubSeq(items, 1, k), ItemIsKept)
    IN  [i \in 1..Len(kept) |-> RatingOfKept(kept[i])]

ItemCount(page) == Len(RatingItems(Load(page)))

\* C9: the ratings list is exactly the ratings of the kept items, in document
\* order; an item that is not kept is skipped, its siblings stay and keep their
\* order, and no item makes parse fail.
C9_RatingsAreTheValidItemsInOrder ==
    /\ ppc = "ratings" =>
          /\ itemIdx \in 1..(ItemCount(html) + 1)
          /\ ratings = KeptRatings(html, itemIdx - 1)
    /\ ppc \in {"stamp", "done"} => ratings = KeptRatings(html, ItemCount(html))
    /\ ppc = "done" => parseResult.value.ratings = KeptRatings(html, ItemCount(html))
    /\ ppc = "failed" => (wine = NoWine \/ itemIdx = ItemCount(html) + 1)

C9_Witness ==
    /\ ppc = "done"
    /\ html = <<H1(T_Opus)>> \o P_ratings
    /\ ItemCount(html) = 3
    /\ Len(parseResult.value.ratings) = 2
    /\ parseResult.value.ratings[1].score.value = Whole(95)
    /\ parseResult.value.ratings[2].score.value = [n |-> 925, d |-> 10]
    /\ parseResult.value.ratings[2].source = <<"W", "S">>

\* the average-price text and the currency text are both located, and the
\* price text holds no digit
PriceTextWithoutNumber(page) ==
    /\ extractText(Load(page), WINE_SEARCHER_SELECTORS.price.average).some
    /\ extractText(Load(page), WINE_SEARCHER_SELECTORS.price.currency).some
    /\ ~HasDigit(extractText(Load(page), WINE_SEARCHER_SELECTORS.price.average).val)

\* C10: when the average-price text and the currency text are located and the
\* price text holds no numeric token, parse fails with ParsingError: no result
\* is returned, with or without a price, although the wine and the ratings had
\* been extracted.
C10_PriceWithoutNumberFailsParse ==
    PriceTextWithoutNumber(html) =>
        /\ ppc \notin {"stamp", "done"}
        /\ parseResult.kind /= "return"
        /\ ppc = "failed" =>
              /\ parseResult.error.type = "ParsingError"
              /\ parseResult.error.sourceUrl = sourceUrl

C10_Witness ==
    /\ ppc = "failed"
    /\ PriceTextWithoutNumber(html)
    /\ wine.name.value = T_Opus
    /\ Len(ratings) = 2
    /\ price = None
    /\ Includes(caught.message, <<"I", "n", "v", "a", "l", "i", "d", " ", "p", "r", "i", "c", "e", " ", "f", "o", "r",
      "m", "a", "t", ":", " ">> \o <<"$", ",", "€", "£">>)
    /\ parseResult.error.type = "ParsingError"

Located(page, selector) == extractText(Load(page), selector).some

\* the average-price text or the currency text is not located
PriceNotLocated(page) ==
    \/ ~Located(page, WINE_SEARCHER_SELECTORS.price.average)
    \/ ~Located(page, WINE_SEARCHER_SELECTORS.price.currency)

\* C11: when the wine has been extracted and the average-price text or the
\* currency text is not located, parse does not fail and the price is null,
\* whatever price-range or updated-at text the document holds.
C11_MissingPriceIsNull ==
    (PriceNotLocated(html) /\ ppc \in {"stamp", "done", "failed"} /\ wine /= NoWine) =>
        /\ ppc /= "failed"
        /\ price = None
        /\ ppc = "done" => /\ parseResult.kind = "return"
                           /\ parseResult.value.price = None

C11_Witness ==
    /\ ppc = "done"
    /\ Located(html, WINE_SEARCHER_SELECTORS.price.average)
    /\ ~Located(html, WINE_SEARCHER_SELECTORS.price.currency)
    /\ Located(html, WINE_SEARCHER_SELECTORS.price.priceRange)
    /\ Located(html, WINE_SEARCHER_SELECTORS.price.updatedAt)
    /\ parseResult.value.price = None
    /\ parseResult.value.wine.name.value = T_Opus

\* the field's text as the listed order gives it: the trimmed text of the first
\* element matching the first alternative of the list that matches any element
ListedText(page, selector) ==
    LET matching == {i \in 1..Len(selector) : Select(Load(page), <<selector[i]>>) /= <<>>}
    IN  IF matching = {} THEN None
        ELSE LET first == CHOOSE i \in matching : \A j \in matching : i <= j
                 text  == Trim(TextOf(Select(Load(page), <<selector[first]>>)[1].el))
             IN  IF Len(text) > 0 THEN Some(text) ELSE None

FieldIsListedText(value, page, selector, default) ==
    IF ListedText(page, selector).some
    THEN value = ListedText(page, selector).val
    ELSE value = default

\* C12: for each field the candidates are tried in their listed order: the value
\* comes from the first listed candidate that matches an element, wherever the
\* matching elements stand in the document.
C12_FirstListedCandidateWins ==
    /\ ppc \in {"ratings", "stamp", "done"} =>
          /\ ListedText(html, WINE_SEARCHER_SELECTORS.wine.name).some
          /\ wine.name.value = ListedText(html, WINE_SEARCHER_SELECTORS.wine.name).val
          /\ FieldIsListedText(wine.region, html, WINE_SEARCHER_SELECTORS.wine.region,
                               T_UnknownRegion)
          /\ FieldIsListedText(wine.winery, html, WINE_SEARCHER_SELECTORS.wine.winery,
                               T_UnknownWinery)
          /\ FieldIsListedText(wine.variety, html, WINE_SEARCHER_SELECTORS.wine.variety,
                               T_UnknownVariety)
    /\ (ppc = "failed" /\ caught.message = T_NameNotFound) =>
          ~ListedText(html, WINE_SEARCHER_SELECTORS.wine.name).some

\* the trimmed text of the first element of the document the selector matches,
\* empty when it matches none
FirstText(page, selector) ==
    IF Select(Load(page), selector) = <<>> THEN <<>>
    ELSE Trim(TextOf(Select(Load(page), selector)[1].el))

StartsWith(s, prefix) == Len(s) >= Len(prefix) /\ SubSeq(s, 1, Len(prefix)) = prefix

\* the field takes its located text, or its default when no text is located
FieldOrDefault(value, page, selector, default) ==
    value = IF FirstText(page, selector) = <<>> THEN default ELSE FirstText(page, selector)

WineFieldsAreTextOrDefault ==
    ppc \in {"ratings", "stamp", "done"} =>
        /\ FieldOrDefault(wine.region, html, WINE_SEARCHER_SELECTORS.wine.region,
                          <<"U", "n", "k", "n", "o", "w", "n", " ", "R", "e", "g", "i", "o", "n">>)
        /\ FieldOrDefault(wine.winery, html, WINE_SEARCHER_SELECTORS.wine.winery,
                          <<"U", "n", "k", "n", "o", "w", "n", " ", "W", "i", "n", "e", "r", "y">>)
        /\ FieldOrDefault(wine.variety, html, WINE_SEARCHER_SELECTORS.wine.variety,
                          <<"U", "n", "k", "n", "o", "w", "n", " ", "V", "a", "r", "i", "e", "t", "y">>)

\* the messages of the errors Wine raises about region, winery and variety
FailedOnRegion  == ppc = "failed" /\ StartsWith(caught.message, <<"W", "i", "n", "e", " ", "r", "e", "g", "i", "o", "n">>)
FailedOnWinery  == ppc = "failed" /\ StartsWith(caught.message, <<"W", "i", "n", "e", "r", "y">>)
FailedOnVariety == ppc = "failed" /\ StartsWith(caught.message, <<"W", "i", "n", "e", " ", "v", "a", "r", "i", "e", "t", "y">>)

\* C13 as stated: with the name located, region, winery and variety take their
\* located text or their literal default, and parse never fails on account of
\* any of the three.
C13_Stated_NeverFailsOnWineFields ==
    /\ WineFieldsAreTextOrDefault
    /\ ~FailedOnRegion
    /\ ~FailedOnWinery
    /\ ~FailedOnVariety

\* C13, amended: with the name located, region, winery and variety take their
\* located text or their literal default; parse never fails on account of one
\* that is not located, and fails on account of a located one exactly when its
\* text is longer than 100 characters.
C13_WineFieldsDefaultOrValidated ==
    /\ WineFieldsAreTextOrDefault
    /\ FailedOnRegion =>
          Len(FirstText(html, WINE_SEARCHER_SELECTORS.wine.region)) > 100
    /\ FailedOnWinery =>
          Len(FirstText(html, WINE_SEARCHER_SELECTORS.wine.winery)) > 100
    /\ FailedOnVariety =>
          Len(FirstText(html, WINE_SEARCHER_SELECTORS.wine.variety)) > 100
    /\ ppc \in {"ratings", "stamp", "done"} =>
          /\ Len(FirstText(html, WINE_SEARCHER_SELECTORS.wine.region)) <= 100
          /\ Len(FirstText(html, WINE_SEARCHER_SELECTORS.wine.winery)) <= 100
          /\ Len(FirstText(html, WINE_SEARCHER_SELECTORS.wine.variety)) <= 100

C13_Witness ==
    /\ ppc = "done"
    /\ parseResult.value.wine.region = <<"N", "a", "p", "a", " ", "V", "a", "l", "l", "e", "y">>
    /\ FirstText(html, WINE_SEARCHER_SELECTORS.wine.winery) = <<>>
    /\ parseResult.value.wine.winery = <<"U", "n", "k", "n", "o", "w", "n", " ", "W", "i", "n", "e", "r", "y">>
    /\ parseResult.value.wine.variety = <<"U", "n", "k", "n", "o", "w", "n", " ", "V", "a", "r", "i", "e", "t", "y">>

\* the positions where a token of s starts: a word character with none before it
TokenStarts(s) ==
    {i \in 1..Len(s) : IsWordChar(s[i]) /\ (i = 1 \/ ~IsWordChar(s[i - 1]))}

\* the token that starts at i: the word characters up to the next other one
TokenAt(s, i) ==
    SubSeq(s, i, CHOOSE j \in i..Len(s) :
                     /\ \A k \in i..j : IsWordChar(s[k])
                     /\ (j = Len(s) \/ ~IsWordChar(s[j + 1])))

IsYearToken(t) ==
    /\ Len(t) = 4
    /\ \A k \in 1..4 : IsDigit(t[k])
    /\ <<t[1], t[2]>> \in {<<"1", "9">>, <<"2", "0">>}

YearTokenStarts(s) == {i \in TokenStarts(s) : IsYearToken(TokenAt(s, i))}

\* the first token of s of the form 19xx or 20xx, as a number
FirstYearToken(s) ==
    ParseInt(TokenAt(s, CHOOSE i \in YearTokenStarts(s) : \A j \in YearTokenStarts(s) : i <= j))

VintageText == FirstText(html, WINE_SEARCHER_SELECTORS.wine.vintage)

PathChars ==
    {"a", "b", "c", "d", "e", "f", "g", "h", "i", "j", "k", "l", "m", "n", "o", "p", "q",
     "r", "s", "t", "u", "v", "w", "x", "y", "z", "0", "1", "2", "3", "4", "5", "6", "7",
     "8", "9", "+"}

\* the normalized text, read left to right: a whitespace character gives '+'
\* unless the one before it was whitespace too, any other character gives its
\* lower-case form when that is a path character and nothing otherwise
RECURSIVE NormalizedFrom(_, _)
NormalizedFrom(s, afterSpace) ==
    IF s = <<>> THEN <<>>
    ELSE IF Head(s) \in Whitespace
         THEN (IF afterSpace THEN <<>> ELSE <<"+">>) \o NormalizedFrom(Tail(s), TRUE)
         ELSE (IF ToLowerChar(Head(s)) \in PathChars THEN <<ToLowerChar(Head(s))>> ELSE <<>>)
              \o NormalizedFrom(Tail(s), FALSE)

NormalizedQuery(q) ==
    NormalizedFrom(q.winery \o <<" ">> \o q.variety \o <<" ">> \o NatToText(q.vintage)
                   \o <<" ">> \o q.region, FALSE)

T_findPrefix == <<"h", "t", "t", "p", "s", ":", "/", "/", "w", "w", "w", ".", "w", "i", "n", "e", "-",
      "s", "e", "a", "r", "c", "h", "e", "r", ".", "c", "o", "m", "/", "f", "i", "n", "d",
      "/">>

T_OpusPath ==
    <<"o", "p", "u", "s", "+", "o", "n", "e", "+", "c", "a", "b", "e", "r", "n", "e", "t",
      "+", "s", "a", "u", "v", "i", "g", "n", "o", "n", "+", "2", "0", "1", "8", "+", "n",
      "a", "p", "a", "+", "v", "a", "l", "l", "e", "y">>

\* C15: the url built for a query is https://www.wine-searcher.com/find/
\* followed by the normalized query; the path segment holds only a-z, 0-9 and
\* +; and the Opus One query gives opus+one+cabernet+sauvignon+2018+napa+valley.
C15_UrlIsNormalizedQuery ==
    upc /= "idle" =>
        /\ url = T_findPrefix \o NormalizedQuery(request)
        /\ \A i \in (Len(T_findPrefix) + 1)..Len(url) : url[i] \in PathChars
        /\ request = Opus =>
              url = T_findPrefix \o T_OpusPath

C15_Witness ==
    /\ upc = "fetching"
    /\ request.winery = <<"B", "\t", "-">>
    /\ request.vintage = 5
    /\ request.region = <<"R", "h", "\t", "\n", "n", "e">>
    /\ request.variety = <<>>
    /\ url = T_findPrefix \o <<"b", "+", "+", "5", "+", "r", "h", "+", "n", "e">>

\* C16: in execute the parser is invoked only after fetch has returned, with the
\* page fetch returned and the url that was fetched; when fetch fails the
\* parser is never invoked and no response is produced; a response is produced
\* only after parse has returned.
C16_FetchThenParseThenRespond ==
    /\ ppc /= "idle" =>
          /\ upc \in {"parsing", "returned", "threw"}
          /\ fpc = "returned"
          /\ fetchResult.kind = "return"
          /\ html = fetchResult.value
          /\ sourceUrl = url
          /\ url = constructWineSearcherUrl(request)
    /\ fpc = "threw" =>
          /\ ppc = "idle"
          /\ ucResult.kind /= "return"
    /\ ucResult.kind = "return" =>
          /\ upc = "returned"
          /\ ppc = "done"
          /\ parseResult.kind = "return"
    /\ upc = "fetching" => ppc = "idle" /\ ucResult = NoResult

C16_Witness ==
    /\ upc = "returned"
    /\ ucResult.kind = "return"
    /\ html = P_full
    /\ fetchResult.value = P_full
    /\ sourceUrl = constructWineSearcherUrl(Opus)
    /\ Len(ucResult.value.ratings) = 2

\* C17: an error of fetch or of parse reaches the caller of execute as the same
\* error, kind and fields unchanged; execute never converts it and never
\* returns a result in its place.
C17_ErrorsPropagateUnchanged ==
    /\ upc = "threw" =>
          /\ ucResult.kind = "throw"
          /\ ucResult.error.type \in {"NetworkError", "TimeoutError", "ParsingError"}
          /\ IF fpc = "threw"
             THEN ucResult = fetchResult /\ ucResult.error.url = url
             ELSE ppc = "failed" /\ ucResult = parseResult
                  /\ ucResult.error.sourceUrl = url
    /\ ((upc /= "idle" /\ fpc = "threw") \/ ppc = "failed") =>
          /\ upc \in {"fetching", "parsing", "threw"}
          /\ ucResult.kind /= "return"

C17_Witness ==
    /\ upc = "threw"
    /\ ppc = "failed"
    /\ ucResult.error.type = "ParsingError"
    /\ ucResult.error.sourceUrl = constructWineSearcherUrl(TimeoutCellars)
    /\ ucResult.error.message = parseResult.error.message

\* text is the ISO-8601 form YYYY-MM-DDTHH:mm:ss.sssZ of the instant t: the
\* text is read back field by field
IsISOFormOf(text, t) ==
    /\ Len(text) = 24
    /\ text[5] = "-" /\ text[8] = "-" /\ text[11] = "T"
    /\ text[14] = ":" /\ text[17] = ":" /\ text[20] = "." /\ text[24] = "Z"
    /\ \A i \in (1..23) \ {5, 8, 11, 14, 17, 20} : IsDigit(text[i])
    /\ ParseInt(SubSeq(text, 1, 4)) = t.y
    /\ ParseInt(SubSeq(text, 6, 7)) = t.m
    /\ ParseInt(SubSeq(text, 9, 10)) = t.d
    /\ ParseInt(SubSeq(text, 12, 13)) \in 0..23
    /\ ParseInt(SubSeq(text, 15, 16)) \in 0..59
    /\ ParseInt(SubSeq(text, 18, 19)) \in 0..59
    /\ ParseInt(SubSeq(text, 12, 13)) * 3600000 + ParseInt(SubSeq(text, 15, 16)) * 60000
         + ParseInt(SubSeq(text, 18, 19)) * 1000 + ParseInt(SubSeq(text, 21, 23)) = t.ms

\* the response resp is the plain form of the wine data wd
IsPlainFormOf(resp, wd) ==
    /\ resp.wine.name = wd.wine.name.value
    /\ resp.wine.vintage = wd.wine.vintage.value
    /\ Len(resp.ratings) = Len(wd.ratings)
    /\ \A i \in 1..Len(wd.ratings) :
          /\ resp.ratings[i].score = wd.ratings[i].score.value
          /\ resp.ratings[i].source = wd.ratings[i].source
    /\ (resp.price = None) <=> (wd.price = None)
    /\ wd.price.some =>
          /\ resp.price.some
          /\ resp.price.val.average = wd.price.val.average
          /\ resp.price.val.currency = wd.price.val.currency
          /\ resp.price.val.priceRange = wd.price.val.priceRange
          /\ IsISOFormOf(resp.price.val.updatedAt, wd.price.val.updatedAt)
    /\ resp.source.site = <<"W", "i", "n", "e", "-", "S", "e", "a", "r", "c", "h", "e", "r">>
    /\ resp.source.url = wd.sourceUrl
    /\ IsISOFormOf(resp.source.crawledAt, wd.crawledAt)

\* C18: whenever execute has returned, its response is the plain form of the
\* WineData the parser returned: name, vintage and every score are the
\* primitive values, the ratings keep their number and order, price is null
\* exactly when the WineData's price is null and otherwise carries its four
\* fields with updatedAt in ISO-8601 form, source.site is "Wine-Searcher",
\* source.url is the WineData's sourceUrl and source.crawledAt is the ISO-8601
\* form of its crawledAt.
C18_ResponseIsPlainFormOfWineData ==
    upc = "returned" => IsPlainFormOf(ucResult.value, parseResult.value)

\* execute returned a response with two ratings and a price without a range
\* whose updatedAt was read from the page, stamped after the clock moved
C18_Witness ==
    /\ upc = "returned"
    /\ Len(parseResult.value.ratings) = 2
    /\ parseResult.value.price.some
    /\ ~parseResult.value.price.val.priceRange.some
    /\ parseResult.value.price.val.updatedAt.y = 2024
    /\ parseResult.value.crawledAt.ms = 2
    /\ ucResult.value.source.crawledAt = <<"2", "0", "2", "6", "-", "0", "6", "-", "1", "5", "T", "0", "0", ":", "0", "0", ":",
      "0", "0", ".", "0", "0", "2", "Z">>
    /\ ucResult.value.price.val.updatedAt = <<"2", "0", "2", "4", "-", "0", "1", "-", "1", "5", "T", "0", "0", ":", "0", "0", ":",
      "0", "0", ".", "0", "0", "0", "Z">>

\* the ratings extractRatings returns for the items, taken from the first
RECURSIVE RatingsOf(_, _)
RatingsOf(rs, items) ==
    IF items = <<>> THEN rs
    ELSE RatingsOf(ratingsAfterItem(rs, Head(items)).val, Tail(items))

\* what parse(h, src) ends with when it runs on its own and reads the clock at
\* t1 and at t2
ParseAlone(h, src, t1, t2) ==
    LET w == extractWine(Load(h))
        p == extractPrice(Load(h), t1)
    IN  IF ~w.ok THEN parseCatch(w.error, src)
        ELSE IF ~p.ok THEN parseCatch(p.error, src)
        ELSE Return([wine |-> w.val, ratings |-> RatingsOf(<<>>, RatingItems(Load(h))),
                     price |-> p.val, sourceUrl |-> src, crawledAt |-> Now(t2)])

\* what execute(req) ends with when it runs on its own, the external process
\* having delivered p
ExecuteAlone(req, p, t1, t2) ==
    LET u == constructWineSearcherUrl(req)
        f == fetchAfterExec(p, u, 5000)
        d == ParseAlone(f.value, u, t1, t2)
    IN  IF f.kind = "throw" THEN f
        ELSE IF d.kind = "throw" THEN d
        ELSE Return(mapToResponseDto(d.value))

\* the call with the locals l, if it has ended, ended as it would on its own
EndedAsAlone(l) ==
    l.upc \in {"returned", "threw"} =>
        \E t1 \in 0..MaxClock, t2 \in 0..MaxClock :
            /\ t1 <= t2
            /\ l.ucResult = ExecuteAlone(l.request, l.proc, t1, t2)

\* C19: with several calls of execute in flight, switched at their awaits in
\* any order, every call that has ended has the result or the error it would
\* have running alone on the same request and the same outcome of its
\* fetch (up to the times it read the clock).
C19_EachRequestEndsAsAlone ==
    /\ EndedAsAlone(Locals)
    /\ \A i \in 1..Len(waiting) : EndedAsAlone(waiting[i])

\* a call has returned its response while another, made on a different request
\* before the first ended, still waits for its external process
C19_Witness ==
    /\ Len(waiting) = 1
    /\ upc = "returned"
    /\ ucResult.value.source.url = constructWineSearcherUrl(request)
    /\ Len(ucResult.value.ratings) = 2
    /\ clock > 0
    /\ waiting[1].upc = "fetching"
    /\ waiting[1].fpc = "running"
    /\ waiting[1].request /= request

\* the error the catch block of parse received was thrown by the parser's own
\* code (part_006 lines 75 and 220); every other throw inside the try block
\* comes from Vintage.create, WineName.create, new Wine or new Price
ThrownByParserItself ==
    \/ caught.message = <<"W", "i", "n", "e", " ", "n", "a", "m", "e", " ", "n", "o", "t", " ", "f", "o", "u",
      "n", "d">>
    \/ StartsWith(caught.message, <<"I", "n", "v", "a", "l", "i", "d", " ", "p", "r", "i", "c", "e", " ", "f", "o", "r",
      "m", "a", "t", ":", " ">>)

\* C20: every validation failure of a value-object factory or entity
\* constructor is a ValidationError that carries the offending field's name;
\* stated of the failures that reach the catch block of parse.
C20_ValidationFailuresAreFieldScoped ==
    (ppc = "failed" /\ ~ThrownByParserItself) =>
        /\ caught.type = "ValidationError"
        /\ "field" \in DOMAIN caught

\* t occurs in s as a run of consecutive characters
HasSubtext(s, t) ==
    \E i \in 1..(Len(s) - Len(t) + 1) : SubSeq(s, i, i + Len(t) - 1) = t

MentionsNotFound(msg) == HasSubtext(msg, <<"4", "0", "4">>) \/ HasSubtext(msg, <<"n", "o", "t", " ", "f", "o", "u", "n", "d">>)

\* the status the filter owes an exception of a domain kind or an unknown kind
StatusOfKind(e) ==
    CASE e.type = "ValidationError" -> 400
      [] e.type = "TimeoutError"    -> 504
      [] e.type = "ParsingError"    -> 500
      [] e.type = "NetworkError"    -> IF MentionsNotFound(e.message) THEN 404 ELSE 502
      [] OTHER                      -> 500

\* the label that stands with a status in the filter's table
LabelOfStatus(status) ==
    CASE status = 400 -> <<"B", "a", "d", " ", "R", "e", "q", "u", "e", "s", "t">>
      [] status = 504 -> <<"G", "a", "t", "e", "w", "a", "y", " ", "T", "i", "m", "e", "o", "u", "t">>
      [] status = 404 -> <<"N", "o", "t", " ", "F", "o", "u", "n", "d">>
      [] status = 502 -> <<"B", "a", "d", " ", "G", "a", "t", "e", "w", "a", "y">>
      [] status = 500 -> <<"I", "n", "t", "e", "r", "n", "a", "l", " ", "S", "e", "r", "v", "e", "r", " ", "E",
      "r", "r", "o", "r">>
      [] OTHER        -> <<>>

\* the status sent is the one owed to the exception's kind, an HttpException's
\* own status
StatusIsByKind ==
    /\ response.body.statusCode = response.status
    /\ response.status = IF response.exception.type = "HttpException"
                         THEN response.exception.status
                         ELSE StatusOfKind(response.exception)

InnerLength(s) ==
    LET solid == {i \in 1..Len(s) : s[i] \notin Whitespace}
    IN  IF solid = {} THEN 0
        ELSE (CHOOSE i \in solid : \A j \in solid : j <= i)
             - (CHOOSE i \in solid : \A j \in solid : i <= j) + 1

\* what holds of a Wine construction in every state
WineIsAsPassed ==
    built.call = "Wine" =>
        /\ built.outcome.ok <=>
              /\ InnerLength(built.args.region) \in 1..100
              /\ InnerLength(built.args.winery) \in 1..100
              /\ InnerLength(built.args.variety) \in 1..100
        /\ built.outcome.ok => built.outcome.val = built.args
        /\ told.method = "toJSON" =>
              told.value = [name    |-> built.args.name.value,
                            region  |-> built.args.region,
                            winery  |-> built.args.winery,
                            variety |-> built.args.variety,
                            vintage |-> built.args.vintage.value]

\* C22: given a valid WineName and Vintage, a Wine is constructed exactly when
\* region, winery and variety each have a trimmed length of 1 to 100; the
\* five fields then read back as passed in, and no step changes them
\* afterwards.
C22_WineConstructsIffFieldsFit ==
    /\ []WineIsAsPassed
    /\ [][built.call = "Wine" => built' = built]_vars

\* a Wine whose region has 100 letters between two spaces was constructed and
\* read back through toJSON
C22_Witness ==
    /\ built.call = "Wine"
    /\ built.outcome.ok
    /\ Len(built.args.region) = 102
    /\ InnerLength(built.args.region) = 100
    /\ told.method = "toJSON"
    /\ told.value.region = built.args.region

\* the invariant the specification gives a Rating
RatingIsValid(r) ==
    /\ InnerLength(r.source) \in 1..100
    /\ ~Less(r.score.value, Whole(0)) /\ ~Less(Whole(100), r.score.value)
    /\ r.reviewCount.d = 1 /\ r.reviewCount.n >= 0
    /\ r.critic.some => InnerLength(r.critic.val) > 0

\* C23: every Rating that exists, constructed directly or pushed by the
\* parser, has a source of trimmed length 1 to 100, a score within 0..100, a
\* review count that is an integer >= 0, and a critic that is null or not
\* blank.
C23_EveryRatingIsValid ==
    /\ \A i \in 1..Len(ratings) : RatingIsValid(ratings[i])
    /\ (built.call = "Rating" /\ built.outcome.ok) => RatingIsValid(built.outcome.val)

\* a and b are the same character, or the two cases of one letter
SameLetter(a, b) ==
    a = b \/ \E i \in 1..26 : {a, b} = {LowerCase[i], UpperCase[i]}

\* t occurs in s, the case of letters set aside
ContainsIgnoringCase(s, t) ==
    \E i \in 1..(Len(s) - Len(t) + 1) : \A k \in 1..Len(t) : SameLetter(s[i + k - 1], t[k])

NamesParker(s) ==
    \/ ContainsIgnoringCase(s, <<"p", "a", "r", "k", "e", "r">>)
    \/ ContainsIgnoringCase(s, <<"r", "p">>)
    \/ ContainsIgnoringCase(s, <<"r", "o", "b", "e", "r", "t", " ", "p", "a", "r", "k", "e", "r">>)

\* C24: isRobertParker() is true exactly when the source or the critic (a null
\* critic counting as empty) contains "parker", "rp" or "robert parker", the
\* case of letters set aside: true for ("Wine Advocate", "Robert Parker") and
\* ("RP Score", null), false for ("Wine Spectator", "James Suckling").
C24_IsRobertParkerIffKeyword ==
    told.method = "isRobertParker" =>
        /\ told.value <=>
              \/ NamesParker(built.args.source)
              \/ built.args.critic.some /\ NamesParker(built.args.critic.val)
        /\ (built.args.source = <<"W", "i", "n", "e", " ", "A", "d", "v", "o", "c", "a", "t", "e">> /\ built.args.critic = Some(<<"R", "o", "b", "e", "r", "t", " ", "P", "a", "r", "k", "e", "r">>))
              => told.value
        /\ (built.args.source = <<"R", "P", " ", "S", "c", "o", "r", "e">> /\ built.args.critic = None) => told.value
        /\ (built.args.source = <<"W", "i", "n", "e", " ", "S", "p", "e", "c", "t", "a", "t", "o", "r">>
              /\ built.args.critic = Some(<<"J", "a", "m", "e", "s", " ", "S", "u", "c", "k", "l", "i", "n", "g">>)) => ~told.value

\* isRobertParker was asked of a rating that names Parker in its critic only
C24_Witness ==
    /\ told.method = "isRobertParker"
    /\ told.value
    /\ built.args.source = <<"W", "i", "n", "e", " ", "A", "d", "v", "o", "c", "a", "t", "e">>
    /\ built.args.critic = Some(<<"R", "o", "b", "e", "r", "t", " ", "P", "a", "r", "k", "e", "r">>)

\* v is an integer from 1900 to the current year plus five
IsYearInRange(v) ==
    /\ v.t = "number"
    /\ v.x.d = 1
    /\ 1900 <= v.x.n
    /\ v.x.n <= CurrentYear + 5

JsYear(y) == [t |-> "number", x |-> [n |-> y, d |-> 1]]

T_mustBeBetween   == <<"m", "u", "s", "t", " ", "b", "e", " ", "b", "e", "t", "w", "e", "e", "n">>
T_mustBeAnInteger == <<"m", "u", "s", "t", " ", "b", "e", " ", "a", "n", " ", "i", "n", "t", "e", "g", "e", "r">>

AtLeast(v, k) == v.x.n >= k * v.x.d
AtMost(v, k)  == v.x.n <= k * v.x.d

\* C26: Score.create(s) succeeds exactly when s is a number with
\* 0 <= s <= 100 (NaN and what is not a number are rejected), and the value
\* is then s; isHighRated() holds exactly of a value >= 90 and isExcellent()
\* exactly of a value >= 85, so a high-rated score is excellent.
C26_ScoreCreateIffInRange ==
    built.call = "Score.create" =>
        /\ built.outcome.ok <=>
              /\ built.args.value.t = "number"
              /\ AtLeast(built.args.value, 0)
              /\ AtMost(built.args.value, 100)
        /\ built.outcome.ok => built.outcome.val.value = built.args.value.x
        /\ told.method = "isHighRated" => (told.value <=> AtLeast(built.args.value, 90))
        /\ told.method = "isExcellent" => (told.value <=> AtLeast(built.args.value, 85))
        /\ (told.method = "isHighRated" /\ told.value) => AtLeast(built.args.value, 85)

\* isHighRated was asked of the score 90 and answered true
C26_Witness ==
    /\ built.call = "Score.create"
    /\ built.args.value = [t |-> "number", x |-> [n |-> 90, d |-> 1]]
    /\ told.method = "isHighRated"
    /\ told.value

\* s without its leading and trailing whitespace
InnerText(s) ==
    LET solid == {i \in 1..Len(s) : s[i] \notin Whitespace}
    IN  IF solid = {} THEN <<>>
        ELSE SubSeq(s, CHOOSE i \in solid : \A j \in solid : i <= j,
                       CHOOSE i \in solid : \A j \in solid : j <= i)

\* C27: WineName.create(s) succeeds exactly when s is a string whose trimmed
\* form has 1 to 100 characters, and the value is then the trimmed string; two
\* names are equal exactly when their trimmed texts are the same, so a name
\* equals the one made of the same text with whitespace around it, and the
\* one made of its own value.
C27_WineNameIsTrimmedText ==
    built.call = "WineName.create" =>
        /\ built.outcome.ok <=>
              /\ built.args.value.t = "string"
              /\ InnerLength(built.args.value.s) \in 1..100
        /\ built.outcome.ok => built.outcome.val.value = InnerText(built.args.value.s)
        /\ told.method = "equals" =>
              /\ told.value <=> InnerText(built.args.value.s) = InnerText(told.arg.s)
              /\ told.arg.s = <<" ">> \o built.args.value.s \o <<"\t">> => told.value
              /\ told.arg.s = built.outcome.val.value => told.value

\* the name made of " Opus<tab>" was compared with the one made of its own
\* value, "Opus", and found equal
C27_Witness ==
    /\ built.call = "WineName.create"
    /\ built.args.value.t = "string"
    /\ built.args.value.s = <<" ">> \o T_Opus \o <<"\t">>
    /\ built.outcome.ok
    /\ built.outcome.val.value = T_Opus
    /\ told.method = "equals"
    /\ told.arg.s = T_Opus
    /\ told.value

T_BadGateway == <<"B", "a", "d", " ", "G", "a", "t", "e", "w", "a", "y">>

\* the fetch of the request that was answered ended in a NetworkError
FetchFailedInTransport ==
    /\ fpc = "threw"
    /\ fetchResult.error.type = "NetworkError"

\* curl exited with 22, its status for an HTTP answer of 400 or above: the
\* only outcome of the process in which the target site reported anything
TargetSiteReportedNotFound ==
    /\ proc.kind = "error"
    /\ proc.code = "22"

\* C28: for a valid query, a fetch that fails in transport and not by a 404
\* of the target site is answered with 502 "Bad Gateway", and 404 is
\* answered only when the target site reported a 404 or not-found.
C28_TransportFailureIsBadGateway ==
    (response.kind = "sent" /\ IsValidRequest(request)) =>
        /\ (FetchFailedInTransport /\ ~TargetSiteReportedNotFound) =>
              /\ response.status = 502
              /\ response.body.error = T_BadGateway
        /\ response.status = 404 => TargetSiteReportedNotFound

\* the least whole number of seconds that covers ms milliseconds
SecondsCovering(ms) ==
    CHOOSE n \in 0..ms : (n - 1) * 1000 < ms /\ ms <= n * 1000

\* ` -H "key: value"` for the k-th header given, key and value escaped
HeaderFlag(k) ==
    <<" ", "-", "H", " ">> \o <<DQ>> \o escapeShellArg(opts.headers[k][1]) \o <<":", " ">>
    \o escapeShellArg(opts.headers[k][2]) \o <<DQ>>

\* the flags of the first k headers, in the order given
RECURSIVE FirstHeaderFlags(_)
FirstHeaderFlags(k) ==
    IF k = 0 THEN <<>> ELSE FirstHeaderFlags(k - 1) \o HeaderFlag(k)

RequestedTimeout == IF opts.timeout = 0 THEN 5000 ELSE opts.timeout

DateBefore(a, b) ==
    \/ a.y < b.y
    \/ a.y = b.y /\ a.m < b.m
    \/ a.y = b.y /\ a.m = b.m /\ a.d < b.d
    \/ a.y = b.y /\ a.m = b.m /\ a.d = b.d /\ a.ms < b.ms

\* the page gives no updated-at text that is a date, so updatedAt is `now`
UpdatedAtDefaulted(page) ==
    LET text == extractText(Load(page), WINE_SEARCHER_SELECTORS.price.updatedAt)
    IN  ~text.some \/ ~ParseDateText(text.val).some

\* the step in which parse hands out its result: the wine, the ratings and the
\* price have been extracted and are the ones handed out, the fetch has
\* returned, and crawledAt is the time of this step
StampedAtTheEnd ==
    (parseResult.kind = "none" /\ parseResult'.kind = "return") =>
        /\ ppc = "stamp"
        /\ fpc = "returned"
        /\ parseResult'.value.wine = wine /\ wine /= NoWine
        /\ parseResult'.value.ratings = ratings
        /\ itemIdx > Len(RatingItems(Load(html)))
        /\ parseResult'.value.price = price
        /\ parseResult'.value.crawledAt = Now(clock)

\* a result is a whole WineData whose crawledAt is not before a defaulted
\* updatedAt; a failure is a ParsingError and nothing else
AllOrNothing ==
    /\ parseResult.kind = "return" =>
          /\ ppc = "done"
          /\ DOMAIN parseResult.value = {"wine", "ratings", "price", "sourceUrl", "crawledAt"}
          /\ (parseResult.value.price.some /\ UpdatedAtDefaulted(html)) =>
                ~DateBefore(parseResult.value.crawledAt, parseResult.value.price.val.updatedAt)
    /\ ppc = "failed" =>
          /\ parseResult.kind = "throw"
          /\ parseResult.error.type = "ParsingError"
          /\ "crawledAt" \notin DOMAIN parseResult.error
    /\ ppc \notin {"done", "failed"} => parseResult.kind = "none"

\* C30: in every successful parse crawledAt is stamped after the wine, the
\* ratings and the price have been extracted, so after the fetch returned and
\* not before a price updatedAt that defaulted to `now`; a parse that fails
\* gives no WineData and no crawledAt.
C30_CrawledAtStampedLast ==
    /\ []AllOrNothing
    /\ [][StampedAtTheEnd /\ clock' >= clock]_vars

\* time passed before the price was extracted and again before the stamp: the
\* defaulted updatedAt is the clock's 1, crawledAt its 2
C30_Witness ==
    /\ ppc = "done"
    /\ UpdatedAtDefaulted(html)
    /\ parseResult.value.price.some
    /\ parseResult.value.price.val.updatedAt = Now(1)
    /\ parseResult.value.crawledAt = Now(2)

====
